---- MODULE Spec2Model ----
(***************************************************************************)
(* Tg-Down: the media pipeline of the Telegram group downloader.           *)
(*                                                                         *)
(* The module holds several specifications over one set of variables:      *)
(*   SpecCD    one ChunkDownloader.DownloadToFile invocation               *)
(*             (internal/downloader/chunked): job sender, chunk workers,   *)
(*             error channel, temp file, rename.                           *)
(*   SpecSeq   one Client.downloadFileTraditional invocation (the          *)
(*             sequential path): downloadFileChunks, calculateChunkLimit,  *)
(*             temp file, rename.                                          *)
(*   SpecPool  the download pool (package downloader): DownloadBatch,      *)
(*             DownloadSingle and DownloadMedia goroutines fed by the      *)
(*             history walker, the live update handler and the manual      *)
(*             check; semaphore, statistics, temp and destination files.   *)
(*   SpecWalk  one Client.DownloadHistoryMedia walk over the chat's        *)
(*             history while messages keep arriving.                       *)
(*   SpecPoolFair  SpecPool with every download goroutine scheduled.       *)
(*   SpecRpc   one RPC through the client's middleware chain:              *)
(*             floodwait.Waiter.Handle around ratelimit.Limiter.Handle     *)
(*             around the transport.                                       *)
(*   SpecLim   the token bucket of ratelimit.Limiter in time, under        *)
(*             concurrent callers.                                         *)
(*   SpecRetry one retry.Retrier.Do call: context check, fn, classifier,   *)
(*             back-off delay, wait.                                       *)
(*   SpecLive  the live follower: the update handlers up to the call of    *)
(*             DownloadSingle.                                             *)
(*   SpecManual  Client.ManualCheckNewMessages over a chat that grows.     *)
(*   SpecPath  Downloader.DownloadMedia's destination path, character      *)
(*             by character: sanitizeFileName, isSafePath.                 *)
(*   SpecSession  session.Manager: HasValidSession, ClearSession and       *)
(*             the session files.                                          *)
(*   SpecConfig  config.LoadConfig: config.yaml, .env, environment,        *)
(*             defaults, validation.                                       *)
(*   SpecFile  one Client.DownloadFile call: the Retrier's attempts of     *)
(*             DownloadToFile and the fetches of each chunk.               *)
(*   SpecCDFair  DownloadToFile with one worker and a file longer than     *)
(*             the job channel, every goroutine scheduled.                 *)
(* A specification leaves the variables of the other parts unchanged.      *)
(***************************************************************************)
EXTENDS Integers, Sequences, FiniteSets, TLC

VARIABLES
    \* ---- ChunkDownloader.DownloadToFile (one invocation) ----
    cdChunkSize,   \* cd.chunkSize, bytes (config chunk_size KiB * BytesPerKB)
    cdMaxWorkers,  \* cd.maxWorkers
    cdSize,        \* the size argument (declared size of the file)
    cdPc,          \* position of the calling goroutine
    ctxDone,       \* the context passed in is cancelled
    ctxDoneEarly,  \* history: it was cancelled before every chunk was written
    tempFile,      \* filePath + ".tmp": [exists, len, written]
    destFile,      \* filePath: [exists, len, written]
    fileClosed,    \* the *os.File of the temp file is closed
    chunkChan,     \* buffered channel of chunkJob
    chunkChanClosed,
    senderI,       \* loop variable i of the sendChunkJobs goroutine
    wPc,           \* worker -> position
    wJob,          \* worker -> the job it holds
    wRetry,        \* worker -> retry counter of the fetch loop
    wData,         \* worker -> len(data) of the successful fetch
    errorChan,     \* buffered channel of error (capacity maxWorkers)
    errorChanClosed,
    fetchLog,      \* every downloadFunc(offset, limit) call made so far
    downloaded,    \* the shared byte counter (under mu)
    progressOn,    \* the progress reporting goroutine is running
    renameRetry,   \* loop variable of finalizeDownload
    cdResult,      \* what DownloadToFile returned: "none" while running
    removeFailed,  \* history: an os.Remove of the temp file failed (logged)
    \* ---- Client.downloadFileTraditional (one invocation) ----
    seqSize,       \* fileSize
    seqPc,         \* position of the calling goroutine
    seqOffset,     \* offset of downloadFileChunks
    seqFetched,    \* the replies so far: sequence of <<offset, len(Bytes)>>
    seqCalls,      \* number of upload.getFile calls made
    seqResult,     \* what downloadFileTraditional returned
    \* ---- the download pool (package downloader) ----
    poolMax,       \* d.maxConcurrent, the capacity of d.semaphore
    poolRetries,   \* MaxRetries of the client's Retrier
    jobs,          \* the DownloadMedia calls of the run, in submission order
    sem,           \* slots of d.semaphore taken
    stats,         \* d.stats
    tmpAt,         \* path -> what is at path + ".tmp": [exists, by]
    destAt,        \* path -> what is at path: [exists, by]
    rootCancelled, \* the root context of main is cancelled
    destAtCancel,  \* history: the destination paths that existed at the cancel
    \* ---- Client.DownloadHistoryMedia (one walk) ----
    wkBatchSize,   \* config.Download.BatchSize
    wkHistory,     \* the chat's messages on the server: id -> kind
    wkPc,          \* position of the walker
    wkOffsetID,    \* offsetID
    wkTotal,       \* totalDownloaded
    wkRequests,    \* the getHistory requests sent so far
    wkPages,       \* the pages the server returned
    wkBatches,     \* the mediaList arguments of DownloadBatch so far
    wkSnapshot,    \* history: the chat's messages when the first page was read
    wkHeads,       \* history: the newest message id at each request
    wkOutstanding, \* goroutines of the current batch that have not finished
    wkResult,      \* what DownloadHistoryMedia returned
    \* ---- one API call through floodwait.Waiter and ratelimit.Limiter ----
    fwPc,          \* position of Waiter.Handle
    fwAttempt,     \* loop variable attempt of Waiter.Handle
    fwSleeps,      \* the flood waits slept so far, seconds
    fwLastErr,     \* lastErr of Waiter.Handle
    fwResult,      \* what Waiter.Handle returned: [ok, err, wrap]
    rpcReplies,    \* history: the answers of the transport so far
    rpcInvocations,\* number of invocations that reached the transport
    rlAcquired,    \* number of tokens limiter.Wait has given out
    rpcCtxDone,    \* the context of the call is cancelled
    \* ---- ratelimit.Limiter in time ----
    lmPeriod,        \* the limiter's period, the seconds 1 / rate between two tokens
    lmBurst,       \* the limiter's burst
    lmNow,         \* the clock, ticks
    lmTokens,      \* credit of the bucket at lmLast, seconds (negative: reserved ahead)
    lmLast,        \* the time the bucket was last updated
    lmSleepers,    \* the wake-up times of the callers sleeping in limiter.Wait
    lmSent,        \* the times, within the last window, at which a request went on to the transport
    \* ---- retry.Retrier ----
    rtCfg,         \* the Retrier's Config: MaxRetries, BaseDelay, MaxDelay
    rtPc,          \* where Do is: check, call, sleep, returned
    rtAttempt,     \* Do's loop variable
    rtExecs,       \* history: the executions of fn
    rtFailed,      \* history: the executions of fn that returned an error
    rtWaits,       \* history: the waits Do started
    rtLastErr,     \* lastErr
    rtDelay,       \* the delay of the last wait, milliseconds
    rtResult,      \* what Do returned
    rtCtxDone,     \* the caller's context is cancelled
    \* ---- the live follower ----
    lvUpdates,     \* history: the updates the dispatcher delivered
    lvAttempts,    \* history: the descriptors handed to DownloadSingle
    \* ---- Client.ManualCheckNewMessages ----
    mcTop,         \* the id of the newest message of the chat
    mcLastSeen,    \* c.lastMessageID
    mcPc,          \* where ManualCheckNewMessages is: ready, fetch
    mcLatest,      \* latestID of the call in progress
    mcCall,        \* history: what the last finished call did
    \* ---- Downloader.DownloadMedia, the destination path ----
    ptFileName,    \* media.FileName, characters
    ptPc,          \* where DownloadMedia is: queued, download, refused, done
    ptPath,        \* filePath, absolute, components
    ptFiles,       \* the files made
    ptFailed,      \* stats.Failed
    \* ---- session.Manager ----
    ssFiles,       \* the entries of the session directory, by path
    ssCalls,       \* history: the operations made
    ssLast,        \* history: the last operation and what it returned
    \* ---- config.LoadConfig ----
    cfFile,        \* config.yaml
    cfDotenv,      \* the .env file
    cfEnviron,     \* the environment of the process
    cfPc,          \* start, loaded
    cfResult,      \* what LoadConfig returned
    \* ---- Client.DownloadFile, chunked ----
    dfChunks,      \* the number of chunks of the file
    dfRetries,     \* MaxRetries of the client's Retrier
    dfPc,          \* where Retrier.Do is: check, download, returned
    dfAttempt,     \* the Retrier's attempt
    dfState,       \* chunk -> sent, written, failed in this attempt
    dfTries,       \* chunk -> fetch calls of its retry loop in this attempt
    dfCalls,       \* history: chunk -> fetch calls made
    dfOks,         \* history: chunk -> fetch calls that returned the bytes
    dfCtxDone,     \* the caller's context is cancelled
    dfResult       \* what DownloadFile returned

\* the files, the context and the fetch log, used by both download paths
ioVars == <<ctxDone, ctxDoneEarly, tempFile, destFile, fileClosed, fetchLog,
            renameRetry>>

cdVars == <<cdChunkSize, cdMaxWorkers, cdSize, cdPc, chunkChan, chunkChanClosed,
            senderI, wPc, wJob, wRetry, wData, errorChan, errorChanClosed,
            downloaded, progressOn, cdResult, removeFailed>>

seqVars == <<seqSize, seqPc, seqOffset, seqFetched, seqCalls, seqResult>>

poolVars == <<poolMax, poolRetries, jobs, sem, stats, tmpAt, destAt,
              rootCancelled, destAtCancel>>

walkVars == <<wkBatchSize, wkHistory, wkPc, wkOffsetID, wkTotal, wkRequests,
              wkPages, wkBatches, wkSnapshot, wkHeads, wkOutstanding,
              wkResult>>

rpcVars == <<fwPc, fwAttempt, fwSleeps, fwLastErr, fwResult, rpcReplies,
             rpcInvocations, rlAcquired, rpcCtxDone>>

limVars == <<lmPeriod, lmBurst, lmNow, lmTokens, lmLast, lmSleepers, lmSent>>

retryVars == <<rtCfg, rtPc, rtAttempt, rtExecs, rtFailed, rtWaits, rtLastErr,
               rtDelay, rtResult, rtCtxDone>>

liveVars == <<lvUpdates, lvAttempts>>

manualVars == <<mcTop, mcLastSeen, mcPc, mcLatest, mcCall>>

pathVars == <<ptFileName, ptPc, ptPath, ptFiles, ptFailed>>

sessionVars == <<ssFiles, ssCalls, ssLast>>

configVars == <<cfFile, cfDotenv, cfEnviron, cfPc, cfResult>>

fileVars == <<dfChunks, dfRetries, dfPc, dfAttempt, dfState, dfTries,
              dfCalls, dfOks, dfCtxDone, dfResult>>

\* what ChunkDownloader.DownloadToFile does not touch
notCD == <<seqVars, poolVars, walkVars, rpcVars, limVars, retryVars,
           liveVars, manualVars, pathVars, sessionVars, configVars, fileVars>>

\* what Client.downloadFileTraditional does not touch
notSeq == <<cdVars, poolVars, walkVars, rpcVars, limVars, retryVars,
            liveVars, manualVars, pathVars, sessionVars, configVars, fileVars>>

\* what the pool does not touch
notPool == <<ioVars, cdVars, seqVars, walkVars, rpcVars, limVars, retryVars,
             liveVars, manualVars, pathVars, sessionVars, configVars, fileVars>>

\* what the history walker does not touch
notWalk == <<ioVars, cdVars, seqVars, poolVars, rpcVars, limVars, retryVars,
             liveVars, manualVars, pathVars, sessionVars, configVars, fileVars>>

\* what one API call through floodwait.Waiter and ratelimit.Limiter does not touch
notRpc == <<ioVars, cdVars, seqVars, poolVars, walkVars, limVars, retryVars,
            liveVars, manualVars, pathVars, sessionVars, configVars, fileVars>>

\* what ratelimit.Limiter in time does not touch
notLim == <<ioVars, cdVars, seqVars, poolVars, walkVars, rpcVars, retryVars,
            liveVars, manualVars, pathVars, sessionVars, configVars, fileVars>>

\* what retry.Retrier does not touch
notRetry == <<ioVars, cdVars, seqVars, poolVars, walkVars, rpcVars, limVars,
              liveVars, manualVars, pathVars, sessionVars, configVars, fileVars>>

\* what the live follower does not touch
notLive == <<ioVars, cdVars, seqVars, poolVars, walkVars, rpcVars, limVars,
             retryVars, manualVars, pathVars, sessionVars, configVars, fileVars>>

\* what Client.ManualCheckNewMessages does not touch
notManual == <<ioVars, cdVars, seqVars, poolVars, walkVars, rpcVars, limVars,
               retryVars, liveVars, pathVars, sessionVars, configVars, fileVars>>

\* what Downloader.DownloadMedia, the destination path does not touch
notPath == <<ioVars, cdVars, seqVars, poolVars, walkVars, rpcVars, limVars,
             retryVars, liveVars, manualVars, sessionVars, configVars, fileVars>>

\* what session.Manager does not touch
notSession == <<ioVars, cdVars, seqVars, poolVars, walkVars, rpcVars,
                limVars, retryVars, liveVars, manualVars, pathVars, configVars, fileVars>>

\* what config.LoadConfig does not touch
notConfig == <<ioVars, cdVars, seqVars, poolVars, walkVars, rpcVars, limVars,
               retryVars, liveVars, manualVars, pathVars, sessionVars, fileVars>>

\* what Client.DownloadFile, chunked does not touch
notFile == <<ioVars, cdVars, seqVars, poolVars, walkVars, rpcVars, limVars,
             retryVars, liveVars, manualVars, pathVars, sessionVars,
             configVars>>

vars == <<ioVars, cdVars, seqVars, poolVars, walkVars, rpcVars, limVars,
          retryVars, liveVars, manualVars, pathVars, sessionVars, configVars, fileVars>>

----------------------------------------------------------------------------
\* Program constants

BytesPerKB == 1024
ChunkChannelMultiplier == 2
MaxRenameRetries == 5
MaxDownloadRetries == 3
APIAlignment == 1024
MaxAPILimit == 524288

\* Bounds of the model
MaxChunks == 3        \* files of at most this many chunks

\* download.chunk_size values (KiB) and download.max_workers values the model
\* draws from
ChunkKBs == {512, 1024}
WorkerCounts == {1, 2}

----------------------------------------------------------------------------
\* ChunkDownloader: pure parts

\* performChunkedDownload: numChunks := (size + chunkSize - 1) / chunkSize
NumChunks(size, chunkSize) == (size + chunkSize - 1) \div chunkSize

\* A last chunk as long as the others (variant)
ChunkJobAtUnclamped(i, size, chunkSize) ==
    [offset |-> i * chunkSize, size |-> chunkSize]

\* sendChunkJobs: the i-th chunkJob
ChunkJobAt(i, size, chunkSize) ==
    LET offset == i * chunkSize
    IN  [offset |-> offset,
         size   |-> IF offset + chunkSize > size THEN size - offset ELSE chunkSize]

\* What downloadFunc returns on success: the bytes of [offset, offset+limit)
\* (upload.getFile with precise=true answers an in-range request in full).
FetchReplyLens(limit) == {limit}

NoJob == [offset |-> 0, size |-> 0]

AbsentFile == [exists |-> FALSE, len |-> 0, written |-> {}]

\* A file is [exists, len, written]: written is the set of extents
\* <<at, from, n>>, the n bytes of the remote file from offset `from` on,
\* stored at position `at`.
\* file.WriteAt(data, at), data being the n remote bytes from `from` on
WriteAt(f, at, from, n) ==
    [f EXCEPT !.written = IF n > 0 THEN @ \cup {<<at, from, n>>} ELSE @,
              !.len = IF at + n > @ THEN at + n ELSE @]

\* A file holds the complete size bytes: its length is size and every chunk
\* range was written in full at its offset.
Complete(f, size, chunkSize) ==
    /\ f.len = size
    /\ \A i \in 0 .. NumChunks(size, chunkSize) - 1 :
          LET j == ChunkJobAt(i, size, chunkSize)
          IN  j.size > 0 => <<j.offset, j.offset, j.size>> \in f.written

Workers == 1 .. cdMaxWorkers

\* The declared sizes the model draws from: up to MaxChunks chunks, on and
\* off the chunk boundary.
CDSizes(chunkSize) ==
    {k * chunkSize + r : k \in 0 .. MaxChunks - 1, r \in {0, 1}}
    \cup {MaxChunks * chunkSize}

\* The sequential path at rest (left so by the other specifications)
SeqIdle ==
    /\ seqSize = 0
    /\ seqPc = "idle"
    /\ seqOffset = 0
    /\ seqFetched = <<>>
    /\ seqCalls = 0
    /\ seqResult = "none"

\* The other parts at rest

ZeroStats ==
    [Total |-> 0, Downloaded |-> 0, Failed |-> 0, Skipped |-> 0,
     TotalSize |-> 0, DownloadedSize |-> 0]

\* The pool at rest (left so by the other specifications)
PoolIdle ==
    /\ poolMax = 0
    /\ poolRetries = 0
    /\ jobs = <<>>
    /\ sem = 0
    /\ stats = ZeroStats
    /\ tmpAt = <<>>
    /\ destAt = <<>>
    /\ rootCancelled = FALSE
    /\ destAtCancel = {}

\* The walker at rest (left so by the other specifications)
WalkIdle ==
    /\ wkBatchSize = 0
    /\ wkHistory = <<>>
    /\ wkPc = "idle"
    /\ wkOffsetID = 0
    /\ wkTotal = 0
    /\ wkRequests = <<>>
    /\ wkPages = <<>>
    /\ wkBatches = <<>>
    /\ wkSnapshot = <<>>
    /\ wkHeads = <<>>
    /\ wkOutstanding = 0
    /\ wkResult = "none"

\* The files, the context and the fetch log of a single download at rest
IoIdle ==
    /\ ctxDone = FALSE
    /\ ctxDoneEarly = FALSE
    /\ tempFile = AbsentFile
    /\ destFile = AbsentFile
    /\ fileClosed = FALSE
    /\ fetchLog = {}
    /\ renameRetry = 0

\* No API call in progress
RpcIdle ==
    /\ fwPc = "idle"
    /\ fwAttempt = 0
    /\ fwSleeps = <<>>
    /\ fwLastErr = [kind |-> "nil", secs |-> 0]
    /\ fwResult = [ok |-> FALSE, err |-> [kind |-> "nil", secs |-> 0],
                   wrap |-> "none"]
    /\ rpcReplies = <<>>
    /\ rpcInvocations = 0
    /\ rlAcquired = 0
    /\ rpcCtxDone = FALSE

\* The rate limiter not in use
LimIdle ==
    /\ lmPeriod = 0
    /\ lmBurst = 0
    /\ lmNow = 0
    /\ lmTokens = 0
    /\ lmLast = 0
    /\ lmSleepers = <<>>
    /\ lmSent = <<>>

\* The Retrier not in use
RetryIdle ==
    /\ rtCfg = [MaxRetries |-> 0, BaseDelay |-> 0, MaxDelay |-> 0]
    /\ rtPc = "idle"
    /\ rtAttempt = 0
    /\ rtExecs = 0
    /\ rtFailed = 0
    /\ rtWaits = 0
    /\ rtLastErr = [text |-> <<>>]
    /\ rtDelay = 0
    /\ rtResult = [err |-> [text |-> <<>>], wrapped |-> FALSE, retries |-> 0]
    /\ rtCtxDone = FALSE

\* The live update handler not in use
LiveIdle ==
    /\ lvUpdates = <<>>
    /\ lvAttempts = <<>>

\* ManualCheckNewMessages not in use
ManualIdle ==
    /\ mcTop = 0
    /\ mcLastSeen = 0
    /\ mcPc = "idle"
    /\ mcLatest = 0
    /\ mcCall = [result |-> "none", before |-> 0, latest |-> 0, top |-> 0,
                 submitted |-> <<>>]

\* No submission whose path is followed character by character
PathIdle ==
    /\ ptFileName = <<>>
    /\ ptPc = "idle"
    /\ ptPath = <<>>
    /\ ptFiles = {}
    /\ ptFailed = 0

\* The session manager not in use
SessionIdle ==
    /\ ssFiles = <<>>
    /\ ssCalls = 0
    /\ ssLast = [op |-> "none"]

\* No configuration being loaded
ConfigIdle ==
    /\ cfFile = [kind |-> "absent"]
    /\ cfDotenv = <<>>
    /\ cfEnviron = <<>>
    /\ cfPc = "idle"
    /\ cfResult = [err |-> "nil"]

\* No Client.DownloadFile call followed fetch by fetch
FileIdle ==
    /\ dfChunks = 0
    /\ dfRetries = 0
    /\ dfPc = "idle"
    /\ dfAttempt = 0
    /\ dfState = <<>>
    /\ dfTries = <<>>
    /\ dfCalls = <<>>
    /\ dfOks = <<>>
    /\ dfCtxDone = FALSE
    /\ dfResult = "none"

----------------------------------------------------------------------------
\* ChunkDownloader.DownloadToFile

InitCD ==
    /\ cdChunkSize \in {kb * BytesPerKB : kb \in ChunkKBs}
    /\ cdMaxWorkers \in WorkerCounts
    /\ cdSize \in CDSizes(cdChunkSize)
    /\ cdPc = "start"
    /\ ctxDone = FALSE
    /\ ctxDoneEarly = FALSE
    /\ tempFile = AbsentFile
    /\ destFile = AbsentFile
    /\ fileClosed = FALSE
    /\ chunkChan = <<>>
    /\ chunkChanClosed = FALSE
    /\ senderI = 0
    /\ wPc = [w \in Workers |-> "idle"]
    /\ wJob = [w \in Workers |-> NoJob]
    /\ wRetry = [w \in Workers |-> 0]
    /\ wData = [w \in Workers |-> 0]
    /\ errorChan = <<>>
    /\ errorChanClosed = FALSE
    /\ fetchLog = {}
    /\ downloaded = 0
    /\ progressOn = FALSE
    /\ renameRetry = 0
    /\ cdResult = "none"
    /\ removeFailed = FALSE
    /\ SeqIdle /\ PoolIdle /\ WalkIdle /\ RpcIdle /\ LimIdle /\ RetryIdle
    /\ LiveIdle /\ ManualIdle /\ PathIdle /\ SessionIdle /\ ConfigIdle
    /\ FileIdle

\* DownloadToFile up to the start of the goroutines: MkdirAll, createTempFile
\* (os.Create, Truncate(size)), then
\* performChunkedDownload starts the progress reporter, the workers and the
\* job sender and enters waitForCompletion.
CDStart ==
    /\ cdPc = "start"
    /\ tempFile' = [exists |-> TRUE, len |-> cdSize, written |-> {}]
    /\ progressOn' = TRUE
    /\ wPc' = [w \in Workers |-> "recv"]
    /\ cdPc' = "wait"
    /\ UNCHANGED notCD
    /\ UNCHANGED removeFailed
    /\ UNCHANGED <<cdChunkSize, cdMaxWorkers, cdSize, ctxDone, ctxDoneEarly,
                   destFile, fileClosed, chunkChan, chunkChanClosed, senderI,
                   wJob, wRetry, wData, errorChan, errorChanClosed, fetchLog,
                   downloaded, renameRetry, cdResult>>

\* MkdirAll or createTempFile fails: DownloadToFile returns the error before
\* anything is started.
CDStartFail ==
    /\ cdPc = "start"
    /\ cdPc' = "returned"
    /\ cdResult' = "create"
    /\ fileClosed' = TRUE
    /\ UNCHANGED notCD
    /\ UNCHANGED removeFailed
    /\ UNCHANGED <<cdChunkSize, cdMaxWorkers, cdSize, ctxDone, ctxDoneEarly,
                   tempFile, destFile, chunkChan, chunkChanClosed, senderI,
                   wPc, wJob, wRetry, wData, errorChan, errorChanClosed,
                   fetchLog, downloaded, progressOn, renameRetry>>

\* sendChunkJobs: select { case chunkChan <- job }
SenderSend ==
    /\ cdPc # "start"
    /\ ~chunkChanClosed
    /\ senderI < NumChunks(cdSize, cdChunkSize)
    /\ Len(chunkChan) < cdMaxWorkers * ChunkChannelMultiplier
    /\ chunkChan' = Append(chunkChan, ChunkJobAt(senderI, cdSize, cdChunkSize))
    /\ senderI' = senderI + 1
    /\ UNCHANGED notCD
    /\ UNCHANGED removeFailed
    /\ UNCHANGED <<cdChunkSize, cdMaxWorkers, cdSize, cdPc, ctxDone, ctxDoneEarly,
                   tempFile, destFile, fileClosed, chunkChanClosed,
                   wPc, wJob, wRetry, wData, errorChan, errorChanClosed,
                   fetchLog, downloaded, progressOn, renameRetry, cdResult>>

\* sendChunkJobs: select { case <-ctx.Done(): return }, then the deferred
\* close(chunkChan). Both cases of the select may be ready at once.
SenderCancelled ==
    /\ cdPc # "start"
    /\ ~chunkChanClosed
    /\ senderI < NumChunks(cdSize, cdChunkSize)
    /\ ctxDone
    /\ chunkChanClosed' = TRUE
    /\ UNCHANGED notCD
    /\ UNCHANGED removeFailed
    /\ UNCHANGED <<cdChunkSize, cdMaxWorkers, cdSize, cdPc, ctxDone, ctxDoneEarly,
                   tempFile, destFile, fileClosed, chunkChan, senderI,
                   wPc, wJob, wRetry, wData, errorChan, errorChanClosed,
                   fetchLog, downloaded, progressOn, renameRetry, cdResult>>

\* sendChunkJobs: the loop ends, the deferred close(chunkChan) runs.
SenderFinish ==
    /\ cdPc # "start"
    /\ ~chunkChanClosed
    /\ senderI = NumChunks(cdSize, cdChunkSize)
    /\ chunkChanClosed' = TRUE
    /\ UNCHANGED notCD
    /\ UNCHANGED removeFailed
    /\ UNCHANGED <<cdChunkSize, cdMaxWorkers, cdSize, cdPc, ctxDone, ctxDoneEarly,
                   tempFile, destFile, fileClosed, chunkChan, senderI,
                   wPc, wJob, wRetry, wData, errorChan, errorChanClosed,
                   fetchLog, downloaded, progressOn, renameRetry, cdResult>>

\* worker: for job := range jobs
WorkerRecv(w) ==
    /\ wPc[w] = "recv"
    /\ chunkChan # <<>>
    /\ wJob' = [wJob EXCEPT ![w] = Head(chunkChan)]
    /\ chunkChan' = Tail(chunkChan)
    /\ wPc' = [wPc EXCEPT ![w] = "check"]
    /\ UNCHANGED notCD
    /\ UNCHANGED removeFailed
    /\ UNCHANGED <<cdChunkSize, cdMaxWorkers, cdSize, cdPc, ctxDone, ctxDoneEarly,
                   tempFile, destFile, fileClosed, chunkChanClosed, senderI,
                   wRetry, wData, errorChan, errorChanClosed,
                   fetchLog, downloaded, progressOn, renameRetry, cdResult>>

\* worker: the range loop ends on the closed, drained channel; errors <- nil
WorkerExit(w) ==
    /\ wPc[w] = "recv"
    /\ chunkChan = <<>>
    /\ chunkChanClosed
    /\ errorChan' = Append(errorChan, "nil")
    /\ wPc' = [wPc EXCEPT ![w] = "done"]
    /\ UNCHANGED notCD
    /\ UNCHANGED removeFailed
    /\ UNCHANGED <<cdChunkSize, cdMaxWorkers, cdSize, cdPc, ctxDone, ctxDoneEarly,
                   tempFile, destFile, fileClosed, chunkChan, chunkChanClosed,
                   senderI, wJob, wRetry, wData, errorChanClosed,
                   fetchLog, downloaded, progressOn, renameRetry, cdResult>>

\* worker: select { case <-ctx.Done(): errors <- ctx.Err(); return; default: }
WorkerCheckCtx(w) ==
    /\ wPc[w] = "check"
    /\ IF ctxDone
       THEN /\ errorChan' = Append(errorChan, "ctx")
            /\ wPc' = [wPc EXCEPT ![w] = "done"]
            /\ UNCHANGED wRetry
       ELSE /\ wPc' = [wPc EXCEPT ![w] = "fetch"]
            /\ wRetry' = [wRetry EXCEPT ![w] = 0]
            /\ UNCHANGED errorChan
    /\ UNCHANGED notCD
    /\ UNCHANGED removeFailed
    /\ UNCHANGED <<cdChunkSize, cdMaxWorkers, cdSize, cdPc, ctxDone, ctxDoneEarly,
                   tempFile, destFile, fileClosed, chunkChan, chunkChanClosed,
                   senderI, wJob, wData, errorChanClosed,
                   fetchLog, downloaded, progressOn, renameRetry, cdResult>>

\* worker: data, err = downloadFunc(job.offset, job.size) succeeds
WorkerFetchOk(w) ==
    /\ wPc[w] = "fetch"
    /\ fetchLog' = fetchLog \cup {[offset |-> wJob[w].offset, limit |-> wJob[w].size]}
    /\ \E n \in FetchReplyLens(wJob[w].size) : wData' = [wData EXCEPT ![w] = n]
    /\ wPc' = [wPc EXCEPT ![w] = "write"]
    /\ UNCHANGED notCD
    /\ UNCHANGED removeFailed
    /\ UNCHANGED <<cdChunkSize, cdMaxWorkers, cdSize, cdPc, ctxDone, ctxDoneEarly,
                   tempFile, destFile, fileClosed, chunkChan, chunkChanClosed,
                   senderI, wJob, wRetry, errorChan, errorChanClosed,
                   downloaded, progressOn, renameRetry, cdResult>>

\* worker: downloadFunc fails; sleep (retry+1)*RetryDelayBase; after
\* MaxDownloadRetries failures errors <- "failed to download chunk"
WorkerFetchFail(w) ==
    /\ wPc[w] = "fetch"
    /\ fetchLog' = fetchLog \cup {[offset |-> wJob[w].offset, limit |-> wJob[w].size]}
    /\ wRetry' = [wRetry EXCEPT ![w] = @ + 1]
    /\ IF wRetry[w] + 1 < MaxDownloadRetries
       THEN UNCHANGED <<wPc, errorChan>>
       ELSE /\ errorChan' = Append(errorChan, "fetch")
            /\ wPc' = [wPc EXCEPT ![w] = "done"]
    /\ UNCHANGED notCD
    /\ UNCHANGED removeFailed
    /\ UNCHANGED <<cdChunkSize, cdMaxWorkers, cdSize, cdPc, ctxDone, ctxDoneEarly,
                   tempFile, destFile, fileClosed, chunkChan, chunkChanClosed,
                   senderI, wJob, wData, errorChanClosed,
                   downloaded, progressOn, renameRetry, cdResult>>

\* worker: file.WriteAt(data, job.offset) succeeds; *downloaded += len(data)
WorkerWrite(w) ==
    /\ wPc[w] = "write"
    /\ ~fileClosed
    /\ tempFile' = WriteAt(tempFile, wJob[w].offset, wJob[w].offset, wData[w])
    /\ downloaded' = downloaded + wData[w]
    /\ wPc' = [wPc EXCEPT ![w] = "recv"]
    /\ UNCHANGED notCD
    /\ UNCHANGED removeFailed
    /\ UNCHANGED <<cdChunkSize, cdMaxWorkers, cdSize, cdPc, ctxDone, ctxDoneEarly,
                   destFile, fileClosed, chunkChan, chunkChanClosed,
                   senderI, wJob, wRetry, wData, errorChan, errorChanClosed,
                   fetchLog, progressOn, renameRetry, cdResult>>

\* worker: file.WriteAt fails (an I/O error, or the file is already closed);
\* errors <- "failed to write chunk"
WorkerWriteFail(w) ==
    /\ wPc[w] = "write"
    /\ errorChan' = Append(errorChan, "write")
    /\ wPc' = [wPc EXCEPT ![w] = "done"]
    /\ UNCHANGED notCD
    /\ UNCHANGED removeFailed
    /\ UNCHANGED <<cdChunkSize, cdMaxWorkers, cdSize, cdPc, ctxDone, ctxDoneEarly,
                   tempFile, destFile, fileClosed, chunkChan, chunkChanClosed,
                   senderI, wJob, wRetry, wData, errorChanClosed,
                   fetchLog, downloaded, progressOn, renameRetry, cdResult>>

\* waitForCompletion: go func() { wg.Wait(); close(errorChan) }()
CloserClose ==
    /\ cdPc # "start"
    /\ ~errorChanClosed
    /\ \A w \in Workers : wPc[w] = "done"
    /\ errorChanClosed' = TRUE
    /\ UNCHANGED notCD
    /\ UNCHANGED removeFailed
    /\ UNCHANGED <<cdChunkSize, cdMaxWorkers, cdSize, cdPc, ctxDone, ctxDoneEarly,
                   tempFile, destFile, fileClosed, chunkChan, chunkChanClosed,
                   senderI, wPc, wJob, wRetry, wData, errorChan,
                   fetchLog, downloaded, progressOn, renameRetry, cdResult>>

\* waitForCompletion: for err := range errorChan { if err != nil { return err } }
\* A non-nil error returns through performChunkedDownload (deferred
\* progressCancel) to DownloadToFile's error branch.
WaitRecv ==
    /\ cdPc = "wait"
    /\ errorChan # <<>>
    /\ errorChan' = Tail(errorChan)
    /\ IF Head(errorChan) = "nil"
       THEN UNCHANGED <<cdPc, cdResult>>
       ELSE /\ cdPc' = "remove"
            /\ cdResult' = Head(errorChan)
    /\ UNCHANGED notCD
    /\ UNCHANGED removeFailed
    /\ UNCHANGED <<cdChunkSize, cdMaxWorkers, cdSize, ctxDone, ctxDoneEarly,
                   tempFile, destFile, fileClosed, chunkChan, chunkChanClosed,
                   senderI, wPc, wJob, wRetry, wData, errorChanClosed,
                   fetchLog, downloaded, progressOn, renameRetry>>

\* waitForCompletion: the range ends on the closed, drained error channel:
\* return nil; DownloadToFile goes on to finalizeDownload.
WaitDone ==
    /\ cdPc = "wait"
    /\ errorChan = <<>>
    /\ errorChanClosed
    /\ cdPc' = "finalize"
    /\ UNCHANGED notCD
    /\ UNCHANGED removeFailed
    /\ UNCHANGED <<cdChunkSize, cdMaxWorkers, cdSize, ctxDone, ctxDoneEarly,
                   tempFile, destFile, fileClosed, chunkChan, chunkChanClosed,
                   senderI, wPc, wJob, wRetry, wData, errorChan, errorChanClosed,
                   fetchLog, downloaded, progressOn, renameRetry, cdResult>>

\* An os.Remove that leaves the file where it is (variant)
osRemoveSkipped(file, removed) == file

\* os.Remove(tempPath).  removed: the file system lets the file go
osRemove(file, removed) ==
    IF removed THEN [file EXCEPT !.exists = FALSE] ELSE file

\* DownloadToFile, error branch: os.Remove(tempPath); a failure is logged
RemoveTemp ==
    /\ cdPc = "remove"
    /\ \E removed \in BOOLEAN :
          /\ tempFile' = osRemove(tempFile, removed)
          /\ removeFailed' = (removeFailed \/ ~removed)
    /\ cdPc' = "close"
    /\ UNCHANGED notCD
    /\ UNCHANGED <<cdChunkSize, cdMaxWorkers, cdSize, ctxDone, ctxDoneEarly,
                   destFile, fileClosed, chunkChan, chunkChanClosed,
                   senderI, wPc, wJob, wRetry, wData, errorChan, errorChanClosed,
                   fetchLog, downloaded, progressOn, renameRetry, cdResult>>

\* finalizeDownload: os.Rename(tempPath, filePath) succeeds
RenameOk ==
    /\ cdPc = "finalize"
    /\ tempFile.exists
    /\ destFile' = tempFile
    /\ tempFile' = [tempFile EXCEPT !.exists = FALSE]
    /\ cdResult' = "ok"
    /\ cdPc' = "close"
    /\ UNCHANGED notCD
    /\ UNCHANGED removeFailed
    /\ UNCHANGED <<cdChunkSize, cdMaxWorkers, cdSize, ctxDone, ctxDoneEarly,
                   fileClosed, chunkChan, chunkChanClosed,
                   senderI, wPc, wJob, wRetry, wData, errorChan, errorChanClosed,
                   fetchLog, downloaded, progressOn, renameRetry>>

\* finalizeDownload: os.Rename fails; after MaxRenameRetries failures
\* os.Remove(tempPath), a failure of which is logged, and the rename error is
\* returned.
RenameFail ==
    /\ cdPc = "finalize"
    /\ renameRetry' = renameRetry + 1
    /\ IF renameRetry + 1 < MaxRenameRetries
       THEN UNCHANGED <<cdPc, cdResult, tempFile, removeFailed>>
       ELSE /\ \E removed \in BOOLEAN :
                  /\ tempFile' = osRemove(tempFile, removed)
                  /\ removeFailed' = (removeFailed \/ ~removed)
            /\ cdResult' = "rename"
            /\ cdPc' = "close"
    /\ UNCHANGED notCD
    /\ UNCHANGED <<cdChunkSize, cdMaxWorkers, cdSize, ctxDone, ctxDoneEarly,
                   destFile, fileClosed, chunkChan, chunkChanClosed,
                   senderI, wPc, wJob, wRetry, wData, errorChan, errorChanClosed,
                   fetchLog, downloaded, progressOn>>

\* DownloadToFile returns: the deferred file.Close() runs.
CDReturn ==
    /\ cdPc = "close"
    /\ fileClosed' = TRUE
    /\ cdPc' = "returned"
    /\ UNCHANGED notCD
    /\ UNCHANGED removeFailed
    /\ UNCHANGED <<cdChunkSize, cdMaxWorkers, cdSize, ctxDone, ctxDoneEarly,
                   tempFile, destFile, chunkChan, chunkChanClosed,
                   senderI, wPc, wJob, wRetry, wData, errorChan, errorChanClosed,
                   fetchLog, downloaded, progressOn, renameRetry, cdResult>>

\* startProgressReporting: the goroutine returns on <-ctx.Done() of
\* progressCtx, which is cancelled with ctx or by the deferred progressCancel
\* when performChunkedDownload returns.
ProgressStop ==
    /\ progressOn
    /\ ctxDone \/ cdPc \in {"remove", "finalize", "close", "returned"}
    /\ progressOn' = FALSE
    /\ UNCHANGED notCD
    /\ UNCHANGED removeFailed
    /\ UNCHANGED <<cdChunkSize, cdMaxWorkers, cdSize, cdPc, ctxDone, ctxDoneEarly,
                   tempFile, destFile, fileClosed, chunkChan, chunkChanClosed,
                   senderI, wPc, wJob, wRetry, wData, errorChan, errorChanClosed,
                   fetchLog, downloaded, renameRetry, cdResult>>

\* The caller's context is cancelled while the invocation runs.
CancelCtx ==
    /\ cdPc \in {"wait", "finalize"}
    /\ ~ctxDone
    /\ ctxDone' = TRUE
    /\ ctxDoneEarly' = ~Complete(tempFile, cdSize, cdChunkSize)
    /\ UNCHANGED notCD
    /\ UNCHANGED removeFailed
    /\ UNCHANGED <<cdChunkSize, cdMaxWorkers, cdSize, cdPc,
                   tempFile, destFile, fileClosed, chunkChan, chunkChanClosed,
                   senderI, wPc, wJob, wRetry, wData, errorChan, errorChanClosed,
                   fetchLog, downloaded, progressOn, renameRetry, cdResult>>

NextCD ==
    \/ CDStart
    \/ CDStartFail
    \/ SenderSend
    \/ SenderCancelled
    \/ SenderFinish
    \/ \E w \in Workers : WorkerRecv(w)
    \/ \E w \in Workers : WorkerExit(w)
    \/ \E w \in Workers : WorkerCheckCtx(w)
    \/ \E w \in Workers : WorkerFetchOk(w)
    \/ \E w \in Workers : WorkerFetchFail(w)
    \/ \E w \in Workers : WorkerWrite(w)
    \/ \E w \in Workers : WorkerWriteFail(w)
    \/ CloserClose
    \/ WaitRecv
    \/ WaitDone
    \/ RemoveTemp
    \/ RenameOk
    \/ RenameFail
    \/ CDReturn
    \/ ProgressStop
    \/ CancelCtx

SpecCD == InitCD /\ [][NextCD]_vars

----------------------------------------------------------------------------
\* DownloadToFile with one worker and a file of more chunks than the job
\* channel and the worker hold, under a fair scheduler.

\* Bounds of the model
MaxLongChunks == 4    \* chunks of the file (one worker: 1 at work + 2 queued)

InitCDLong ==
    /\ cdChunkSize = 512 * BytesPerKB
    /\ cdMaxWorkers = 1
    /\ cdSize \in {k * cdChunkSize : k \in 1 .. MaxLongChunks}
    /\ cdPc = "start"
    /\ ctxDone = FALSE
    /\ ctxDoneEarly = FALSE
    /\ tempFile = AbsentFile
    /\ destFile = AbsentFile
    /\ fileClosed = FALSE
    /\ chunkChan = <<>>
    /\ chunkChanClosed = FALSE
    /\ senderI = 0
    /\ wPc = [w \in Workers |-> "idle"]
    /\ wJob = [w \in Workers |-> NoJob]
    /\ wRetry = [w \in Workers |-> 0]
    /\ wData = [w \in Workers |-> 0]
    /\ errorChan = <<>>
    /\ errorChanClosed = FALSE
    /\ fetchLog = {}
    /\ downloaded = 0
    /\ progressOn = FALSE
    /\ renameRetry = 0
    /\ cdResult = "none"
    /\ removeFailed = FALSE
    /\ SeqIdle /\ PoolIdle /\ WalkIdle /\ RpcIdle /\ LimIdle /\ RetryIdle
    /\ LiveIdle /\ ManualIdle /\ PathIdle /\ SessionIdle /\ ConfigIdle
    /\ FileIdle

\* The steps of each goroutine
SenderStep == SenderSend \/ SenderCancelled \/ SenderFinish

WorkerStep(w) ==
    \/ WorkerRecv(w) \/ WorkerExit(w) \/ WorkerCheckCtx(w)
    \/ WorkerFetchOk(w) \/ WorkerFetchFail(w)
    \/ WorkerWrite(w) \/ WorkerWriteFail(w)

CallerStep ==
    \/ CDStart \/ CDStartFail \/ WaitRecv \/ WaitDone \/ RemoveTemp
    \/ RenameOk \/ RenameFail \/ CDReturn

\* The Go scheduler runs every goroutine that can take a step, and a call of
\* downloadFunc or WriteAt comes back; nothing makes the caller cancel.
FairCD ==
    /\ WF_vars(SenderStep)
    /\ WF_vars(WorkerStep(1))
    /\ WF_vars(CloserClose)
    /\ WF_vars(CallerStep)
    /\ WF_vars(ProgressStop)

SpecCDFair == InitCDLong /\ [][NextCD]_vars /\ FairCD

----------------------------------------------------------------------------
\* Client.downloadFileTraditional: the sequential path

\* ChunkSize of the telegram package: 512 * 1024
ClientChunkSize == 524288

\* Bound: upload.getFile calls of one sequential download
MaxSeqCalls == 4

\* The declared sizes the sequential model draws from
SeqSizes == {0, 1, 1500, 2048, 524289}

Min(a, b) == IF a < b THEN a ELSE b

\* downloadFileChunks: offset = (offset / APIAlignment) * APIAlignment
AlignDown(x) == (x \div APIAlignment) * APIAlignment

\* downloadFileChunks: nextOffset = ((nextOffset / APIAlignment) + 1) * APIAlignment
AlignUp(x) == IF x % APIAlignment # 0 THEN ((x \div APIAlignment) + 1) * APIAlignment ELSE x

\* calculateChunkLimit(chunkSize, remaining)
calculateChunkLimit(chunkSize, remaining) ==
    LET l1 == IF remaining < chunkSize THEN remaining ELSE chunkSize
        l2 == IF l1 > MaxAPILimit THEN MaxAPILimit ELSE l1
    IN  IF l2 % APIAlignment # 0
        THEN IF (l2 \div APIAlignment) * APIAlignment = 0
             THEN APIAlignment
             ELSE (l2 \div APIAlignment) * APIAlignment
        ELSE l2

\* len(Bytes) of an upload.getFile reply: the requested range up to the end of
\* the file, or fewer bytes, or none.
SeqReplyLens(offset, limit, fileSize) ==
    LET full == Min(limit, fileSize - offset)
    IN  {full, full \div 2, 0} \cup (IF full > 0 THEN {full - 1} ELSE {})

\* A temp file left behind by an earlier run
StaleFile == [exists |-> TRUE, len |-> 1, written |-> {<<0, 0, 1>>}]

\* ChunkDownloader at rest (left so by the other specifications)
CDIdle ==
    /\ cdChunkSize = ClientChunkSize
    /\ cdMaxWorkers = 0
    /\ cdSize = 0
    /\ cdPc = "idle"
    /\ chunkChan = <<>>
    /\ chunkChanClosed = FALSE
    /\ senderI = 0
    /\ wPc = <<>>
    /\ wJob = <<>>
    /\ wRetry = <<>>
    /\ wData = <<>>
    /\ errorChan = <<>>
    /\ errorChanClosed = FALSE
    /\ downloaded = 0
    /\ progressOn = FALSE
    /\ cdResult = "none"
    /\ removeFailed = FALSE

InitSeq ==
    /\ seqSize \in SeqSizes
    /\ seqPc = "start"
    /\ seqOffset = 0
    /\ seqFetched = <<>>
    /\ seqCalls = 0
    /\ seqResult = "none"
    /\ ctxDone = FALSE
    /\ ctxDoneEarly = FALSE
    /\ tempFile \in {AbsentFile, StaleFile}
    /\ destFile = AbsentFile
    /\ fileClosed = FALSE
    /\ fetchLog = {}
    /\ renameRetry = 0
    /\ CDIdle /\ PoolIdle /\ WalkIdle /\ RpcIdle /\ LimIdle /\ RetryIdle
    /\ LiveIdle /\ ManualIdle /\ PathIdle /\ SessionIdle /\ ConfigIdle
    /\ FileIdle

\* downloadFileTraditional: a temp file found by os.Stat is removed, then
\* createTempFile (isSafePath, os.Create) gives the empty temp file.
SeqStart ==
    /\ seqPc = "start"
    /\ tempFile' = [exists |-> TRUE, len |-> 0, written |-> {}]
    /\ seqPc' = "loop"
    /\ UNCHANGED notSeq
    /\ UNCHANGED <<seqSize, seqOffset, seqFetched, seqCalls, seqResult,
                   ctxDone, ctxDoneEarly, destFile, fileClosed, fetchLog, renameRetry>>

\* downloadFileTraditional: createTempFile refuses the path or os.Create
\* fails; the error is returned.
SeqStartFail ==
    /\ seqPc = "start"
    /\ tempFile' = [tempFile EXCEPT !.exists = FALSE]
    /\ seqResult' = "create"
    /\ seqPc' = "returned"
    /\ UNCHANGED notSeq
    /\ UNCHANGED <<seqSize, seqOffset, seqFetched, seqCalls,
                   ctxDone, ctxDoneEarly, destFile, fileClosed, fetchLog, renameRetry>>

\* downloadFileChunks, one iteration: align the offset, compute the limit,
\* upload.getFile answers with n bytes, writeFileChunk appends them
\* (file.Write), the next offset is offset + n rounded up to APIAlignment.
SeqFetchOk ==
    /\ seqPc = "loop"
    /\ seqOffset < seqSize
    /\ ~ctxDone
    /\ seqCalls < MaxSeqCalls
    /\ LET offset == AlignDown(seqOffset)
           limit  == calculateChunkLimit(ClientChunkSize, seqSize - offset)
       IN  /\ fetchLog' = fetchLog \cup {[offset |-> offset, limit |-> limit]}
           /\ \E n \in SeqReplyLens(offset, limit, seqSize) :
                 /\ tempFile' = WriteAt(tempFile, tempFile.len, offset, n)
                 /\ seqFetched' = Append(seqFetched, <<offset, n>>)
                 /\ seqOffset' = AlignUp(offset + n)
    /\ seqCalls' = seqCalls + 1
    /\ UNCHANGED notSeq
    /\ UNCHANGED <<seqSize, seqPc, seqResult,
                   ctxDone, ctxDoneEarly, destFile, fileClosed, renameRetry>>

\* downloadFileChunks: upload.getFile returns an error (an RPC error, or the
\* context is cancelled) or writeFileChunk fails; the error is returned.
SeqFetchFail ==
    /\ seqPc = "loop"
    /\ seqOffset < seqSize
    /\ seqCalls < MaxSeqCalls
    /\ LET offset == AlignDown(seqOffset)
           limit  == calculateChunkLimit(ClientChunkSize, seqSize - offset)
       IN  fetchLog' = fetchLog \cup {[offset |-> offset, limit |-> limit]}
    /\ seqCalls' = seqCalls + 1
    /\ \E e \in {"fetch", "write"} : seqResult' = e
    /\ seqPc' = "cleanup"
    /\ UNCHANGED notSeq
    /\ UNCHANGED <<seqSize, seqOffset, seqFetched,
                   ctxDone, ctxDoneEarly, tempFile, destFile, fileClosed, renameRetry>>

\* downloadFileChunks: the loop ends (offset >= fileSize), file.Sync();
\* the deferred file.Close() runs before downloadFileTraditional goes on.
SeqLoopEnd ==
    /\ seqPc = "loop"
    /\ seqOffset >= seqSize
    /\ fileClosed' = TRUE
    /\ \E synced \in BOOLEAN :
          IF synced
          THEN seqPc' = "finalize" /\ UNCHANGED seqResult
          ELSE seqPc' = "cleanup" /\ seqResult' = "sync"
    /\ UNCHANGED notSeq
    /\ UNCHANGED <<seqSize, seqOffset, seqFetched, seqCalls,
                   ctxDone, ctxDoneEarly, tempFile, destFile, fetchLog, renameRetry>>

\* downloadFileTraditional, downloadErr != nil: the file is closed,
\* cleanupTempFile removes the temp file, the error is returned.
SeqCleanup ==
    /\ seqPc = "cleanup"
    /\ fileClosed' = TRUE
    /\ tempFile' = [tempFile EXCEPT !.exists = FALSE]
    /\ seqPc' = "returned"
    /\ UNCHANGED notSeq
    /\ UNCHANGED <<seqSize, seqOffset, seqFetched, seqCalls, seqResult,
                   ctxDone, ctxDoneEarly, destFile, fetchLog, renameRetry>>

\* finalizeTempFile: os.Rename(tempPath, filePath) succeeds
SeqRenameOk ==
    /\ seqPc = "finalize"
    /\ tempFile.exists
    /\ destFile' = tempFile
    /\ tempFile' = [tempFile EXCEPT !.exists = FALSE]
    /\ seqResult' = "ok"
    /\ seqPc' = "returned"
    /\ UNCHANGED notSeq
    /\ UNCHANGED <<seqSize, seqOffset, seqFetched, seqCalls,
                   ctxDone, ctxDoneEarly, fileClosed, fetchLog, renameRetry>>

\* finalizeTempFile: os.Rename fails; after MaxRenameRetries failures
\* cleanupTempFile removes the temp file and the rename error is returned.
SeqRenameFail ==
    /\ seqPc = "finalize"
    /\ renameRetry' = renameRetry + 1
    /\ IF renameRetry + 1 < MaxRenameRetries
       THEN UNCHANGED <<seqPc, seqResult, tempFile>>
       ELSE /\ tempFile' = [tempFile EXCEPT !.exists = FALSE]
            /\ seqResult' = "rename"
            /\ seqPc' = "returned"
    /\ UNCHANGED notSeq
    /\ UNCHANGED <<seqSize, seqOffset, seqFetched, seqCalls,
                   ctxDone, ctxDoneEarly, destFile, fileClosed, fetchLog>>

\* The caller's context is cancelled while the sequential download runs.
SeqCancelCtx ==
    /\ seqPc \in {"loop", "finalize"}
    /\ ~ctxDone
    /\ ctxDone' = TRUE
    /\ ctxDoneEarly' = (seqPc = "loop")
    /\ UNCHANGED notSeq
    /\ UNCHANGED <<seqVars, tempFile, destFile, fileClosed, fetchLog, renameRetry>>

NextSeq ==
    \/ SeqStart
    \/ SeqStartFail
    \/ SeqFetchOk
    \/ SeqFetchFail
    \/ SeqLoopEnd
    \/ SeqCleanup
    \/ SeqRenameOk
    \/ SeqRenameFail
    \/ SeqCancelCtx

SpecSeq == InitSeq /\ [][NextSeq]_vars

----------------------------------------------------------------------------
\* The download pool (package downloader) fed by the history walker, the
\* live update handler and ManualCheckNewMessages

\* chat.target_id of the configuration
TargetChatID == 1

\* download.max_concurrent values the model draws from
ConcurrentCounts == {1, 2}

\* retry.max_retries values the model draws from
RetryCounts == {1}

\* Bounds of the model
MaxJobs == 2          \* submissions to the pool in one run

\* A message of the target chat.  sizes are the photo's PhotoSizeClass
\* entries, attrs the file names of the document's DocumentAttributeFilename
\* attributes.  A file name is a sequence of tokens, cut where the patterns
\* of sanitizeFileName cut it.
PhotoMsg ==
    [id |-> 1, peerClass |-> "PeerChannel", peer |-> TargetChatID,
     class |-> "Message", media |-> "photo",
     fileID |-> 7,
     sizes |-> << [class |-> "PhotoStrippedSize", size |-> 1, type |-> "i"],
                  [class |-> "PhotoSize", size |-> 2, type |-> "x"] >>,
     attrs |-> <<>>, docSize |-> 0, mime |-> ""]

DocMsg ==
    [id |-> 2, peerClass |-> "PeerChannel", peer |-> TargetChatID,
     class |-> "Message", media |-> "document",
     fileID |-> 9, sizes |-> <<>>,
     attrs |-> << <<"a", "/", "b.pdf">> >>, docSize |-> 3,
     mime |-> "application/pdf"]

PoolMessages == {PhotoMsg, DocMsg}

\* nil *MediaInfo
NilMedia == [MediaType |-> "nil"]

\* getPhotoSizeInfo: (size, type) of one PhotoSizeClass entry
getPhotoSizeInfo(s) ==
    IF s.class \in {"PhotoSize", "PhotoStrippedSize", "PhotoSizeProgressive"}
    THEN [size |-> s.size, type |-> s.type]
    ELSE [size |-> 0, type |-> ""]

\* findLargestPhotoSize: the first entry of the largest size, (0, "") if none
RECURSIVE findLargestFrom(_, _, _)
findLargestFrom(sizes, i, best) ==
    IF i > Len(sizes) THEN best
    ELSE LET cur == getPhotoSizeInfo(sizes[i])
         IN  findLargestFrom(sizes, i + 1,
                             IF cur.size > best.size THEN cur ELSE best)

findLargestPhotoSize(sizes) ==
    findLargestFrom(sizes, 1, [size |-> 0, type |-> ""])

\* getDocumentFileName: the first file name attribute, else document_<id>
getDocumentFileName(msg) ==
    IF Len(msg.attrs) > 0 THEN msg.attrs[1]
    ELSE <<"document_", ToString(msg.fileID)>>

\* extractMediaInfo (extractPhotoInfo, extractDocumentInfo): the descriptor
\* the history walker builds from a message
extractMediaInfo(msg, chatID) ==
    IF msg.class # "Message" THEN NilMedia
    ELSE IF msg.media = "photo" THEN
        LET largest == findLargestPhotoSize(msg.sizes)
        IN  [MessageID |-> msg.id, FileID |-> msg.fileID,
             MediaType |-> "photo",
             FileName  |-> <<"photo_", ToString(msg.fileID), ".jpg">>,
             FileSize  |-> largest.size, ThumbSize |-> largest.type,
             MimeType  |-> "image/jpeg", ChatID |-> chatID]
    ELSE IF msg.media = "document" THEN
        [MessageID |-> msg.id, FileID |-> msg.fileID,
         MediaType |-> "document",
         FileName  |-> getDocumentFileName(msg),
         FileSize  |-> msg.docSize, ThumbSize |-> "",
         MimeType  |-> msg.mime, ChatID |-> chatID]
    ELSE NilMedia

\* The largest size among the *tg.PhotoSize entries only, 0 if none
RECURSIVE largestPhotoSizeOnly(_, _, _, _)
largestPhotoSizeOnly(sizes, i, found, best) ==
    IF i > Len(sizes) THEN best
    ELSE IF sizes[i].class = "PhotoSize" /\ (~found \/ sizes[i].size > best)
         THEN largestPhotoSizeOnly(sizes, i + 1, TRUE, sizes[i].size)
         ELSE largestPhotoSizeOnly(sizes, i + 1, found, best)

\* createMediaInfo: the descriptor the live handler and the manual check
\* build from a message
createMediaInfo(msg) ==
    IF msg.media = "photo" THEN
        [MessageID |-> msg.id, FileID |-> msg.fileID,
         MediaType |-> "photo",
         FileName  |-> <<"photo_", ToString(TargetChatID), "_",
                         ToString(msg.id), ".jpg">>,
         FileSize  |-> largestPhotoSizeOnly(msg.sizes, 1, FALSE, 0),
         ThumbSize |-> "", MimeType |-> "", ChatID |-> TargetChatID]
    ELSE IF msg.media = "document" THEN
        [MessageID |-> msg.id, FileID |-> msg.fileID,
         MediaType |-> "document",
         FileName  |-> IF Len(msg.attrs) > 0 THEN msg.attrs[1]
                       ELSE <<"document_", ToString(TargetChatID), "_",
                              ToString(msg.id)>>,
         FileSize  |-> msg.docSize, ThumbSize |-> "",
         MimeType  |-> msg.mime, ChatID |-> TargetChatID]
    ELSE NilMedia

\* A filter that lets the messages of every peer through (variant)
isFromAnyChat(msg, targetChatID) == msg.peerClass # "nil"

\* isFromTargetChat
isFromTargetChat(msg, targetChatID) ==
    /\ msg.peerClass # "nil"
    /\ msg.peer = targetChatID

\* hasMedia
hasMedia(msg) == msg.media # "none"

\* getFileExtension
getFileExtension(mimeType) ==
    CASE mimeType = "image/jpeg" -> ".jpg"
      [] mimeType = "image/png" -> ".png"
      [] mimeType = "image/gif" -> ".gif"
      [] mimeType = "image/webp" -> ".webp"
      [] mimeType = "video/mp4" -> ".mp4"
      [] mimeType = "video/avi" -> ".avi"
      [] mimeType = "video/mov" -> ".mov"
      [] mimeType = "video/webm" -> ".webm"
      [] mimeType = "audio/mp3" -> ".mp3"
      [] mimeType = "audio/ogg" -> ".ogg"
      [] mimeType = "application/pdf" -> ".pdf"
      [] OTHER -> ""

\* The patterns sanitizeFileName replaces by "_"
DangerousTokens == {"/", "\\", "..", ":", "*", "?", "\"", "<", ">", "|"}

\* sanitizeFileName
sanitizeFileName(fileName) ==
    LET r == [i \in 1 .. Len(fileName) |->
                 IF fileName[i] \in DangerousTokens THEN "_" ELSE fileName[i]]
    IN  IF r = <<>> \/ r = <<".">> \/ r = <<"..">> THEN <<"unnamed_file">>
        ELSE r

\* DownloadMedia: the destination path of a descriptor, relative to
\* downloadPath: chat_<ChatID> joined with the sanitized file name
FilePath(media) ==
    LET fileName == IF media.FileName = <<>>
                    THEN <<"file_", ToString(media.MessageID), "_",
                           ToString(media.FileID),
                           getFileExtension(media.MimeType)>>
                    ELSE media.FileName
    IN  <<"chat_", ToString(media.ChatID), "/">> \o sanitizeFileName(fileName)

\* isSafePath: the path relative to downloadPath does not climb out of it
isSafePath(path) ==
    /\ path[1] # ".."
    /\ \A i \in 1 .. Len(path) - 1 : ~(path[i] = "/" /\ path[i + 1] = "..")

\* The descriptors of the run and their destination paths
HistoryDescs == {extractMediaInfo(msg, TargetChatID) : msg \in PoolMessages}
LiveDescs == {createMediaInfo(msg) : msg \in PoolMessages}
PoolPaths == {FilePath(d) : d \in HistoryDescs \cup LiveDescs}

\* The mediaList arguments of DownloadBatch
BatchLists ==
    {<<d>> : d \in HistoryDescs}
    \cup {<<d, e>> : d \in HistoryDescs, e \in HistoryDescs}

NoFile == [exists |-> FALSE, by |-> 0]
\* a file made by an earlier run
OldFile == [exists |-> TRUE, by |-> 0]

\* A goroutine about to call DownloadMedia(ctx, media)
NewJob(media, ctx, src) ==
    [media |-> media, ctx |-> ctx, src |-> src, pc |-> "queued",
     res |-> "none", called |-> FALSE, fetched |-> FALSE,
     attempt |-> 0]

JobIds == 1 .. Len(jobs)

\* the context a job was given is cancelled
JobCtxDone(j) == jobs[j].ctx = "root" /\ rootCancelled

\* An updateStats that leaves a failure uncounted (variant)
updateStatsUncounted(s, wasDownloaded, size) ==
    IF wasDownloaded
    THEN [s EXCEPT !.Downloaded = @ + 1, !.DownloadedSize = @ + size]
    ELSE s

\* updateStats
updateStats(s, wasDownloaded, size) ==
    IF wasDownloaded
    THEN [s EXCEPT !.Downloaded = @ + 1, !.DownloadedSize = @ + size]
    ELSE [s EXCEPT !.Failed = @ + 1]

----------------------------------------------------------------------------
\* Client.DownloadHistoryMedia: the paged walk over the history of the chat

\* UnixTimeBase, the zero GetMediaMessages passes for the fields it leaves out
UnixTimeBase == 0

\* download.batch_size values the model draws from
BatchSizes == {1, 2}

\* Bounds of the model
MaxMsgs == 5          \* messages the chat ever holds

\* What a message of the history is: a photo message, a text message or a
\* service message (*tg.MessageService)
MsgKinds == {"photo", "text", "service"}

\* The message with the given id.  The history of the chat is a sequence of
\* kinds, the message at position i having id i, the newest last.
MsgOf(id, kind) ==
    [id |-> id, peerClass |-> "PeerChannel", peer |-> TargetChatID,
     class |-> IF kind = "service" THEN "MessageService" ELSE "Message",
     media |-> IF kind = "photo" THEN "photo" ELSE "none",
     fileID |-> id,
     sizes |-> << [class |-> "PhotoSize", size |-> 2, type |-> "x"] >>,
     attrs |-> <<>>, docSize |-> 0, mime |-> ""]

\* A request paging by position from the newest message instead of by
\* message id
HistoryRequestByCount(offsetID, total, limit) ==
    [OffsetID |-> UnixTimeBase, AddOffset |-> total, Limit |-> limit]

\* The request GetMediaMessages sends for the walker's offsetID; the walker
\* has processed `total` descriptors so far.
HistoryRequest(offsetID, total, limit) ==
    [OffsetID |-> offsetID, AddOffset |-> UnixTimeBase, Limit |-> limit]

\* messages.getHistory of the server: the messages older than OffsetID (from
\* the newest if OffsetID is 0), AddOffset of them skipped, newest first, at
\* most Limit.
GetHistory(history, req) ==
    LET below == IF req.OffsetID = 0 THEN Len(history)
                 ELSE Min(req.OffsetID - 1, Len(history))
        top   == below - req.AddOffset
        n     == IF top < 0 THEN 0 ELSE Min(req.Limit, top)
    IN  [i \in 1 .. n |-> MsgOf(top - i + 1, history[top - i + 1])]

\* GetMediaMessages: the descriptors of the messages of a page that carry
\* media, in page order
RECURSIVE MediaListOf(_)
MediaListOf(page) ==
    IF page = <<>> THEN <<>>
    ELSE LET media == extractMediaInfo(Head(page), TargetChatID)
         IN  IF media.MediaType = "nil" THEN MediaListOf(Tail(page))
             ELSE <<media>> \o MediaListOf(Tail(page))

\* A walker taking the offsetID from the first descriptor of the list (variant)
NextOffsetIDFirst(mediaList) == mediaList[1].MessageID

\* DownloadHistoryMedia: the offsetID of the next request
NextOffsetID(mediaList) == mediaList[Len(mediaList)].MessageID

InitWalk ==
    /\ wkBatchSize \in BatchSizes
    /\ wkHistory \in UNION {[1 .. n -> MsgKinds] : n \in 0 .. MaxMsgs}
    /\ wkPc = "fetch"
    /\ wkOffsetID = 0
    /\ wkTotal = 0
    /\ wkRequests = <<>>
    /\ wkPages = <<>>
    /\ wkBatches = <<>>
    /\ wkSnapshot = <<>>
    /\ wkHeads = <<>>
    /\ wkOutstanding = 0
    /\ wkResult = "none"
    /\ IoIdle /\ CDIdle /\ SeqIdle /\ PoolIdle /\ RpcIdle /\ LimIdle
    /\ RetryIdle /\ LiveIdle /\ ManualIdle /\ PathIdle /\ SessionIdle
    /\ ConfigIdle /\ FileIdle

\* One turn of the loop up to Wait: GetMediaMessages asks for the page at
\* offsetID and keeps the descriptors; an empty list ends the walk, otherwise
\* DownloadBatch starts one goroutine per descriptor.
WalkFetch ==
    /\ wkPc = "fetch"
    /\ LET req       == HistoryRequest(wkOffsetID, wkTotal, wkBatchSize)
           page      == GetHistory(wkHistory, req)
           mediaList == MediaListOf(page)
       IN  /\ wkRequests' = Append(wkRequests, req)
           /\ wkPages' = Append(wkPages, page)
           /\ wkSnapshot' = IF wkRequests = <<>> THEN wkHistory ELSE wkSnapshot
           /\ wkHeads' = Append(wkHeads, Len(wkHistory))
           /\ IF Len(mediaList) = 0
              THEN /\ wkPc' = "done"
                   /\ wkResult' = "ok"
                   /\ UNCHANGED <<wkBatches, wkOutstanding>>
              ELSE /\ wkPc' = "wait"
                   /\ wkBatches' = Append(wkBatches, mediaList)
                   /\ wkOutstanding' = Len(mediaList)
                   /\ UNCHANGED wkResult
    /\ UNCHANGED <<wkBatchSize, wkHistory, wkOffsetID, wkTotal>>
    /\ UNCHANGED notWalk

\* GetMediaMessages returns an error and the walk returns it
WalkFetchFail ==
    /\ wkPc = "fetch"
    /\ wkPc' = "done"
    /\ wkResult' = "error"
    /\ UNCHANGED <<wkBatchSize, wkHistory, wkOffsetID, wkTotal, wkRequests,
                   wkPages, wkBatches, wkSnapshot, wkHeads, wkOutstanding>>
    /\ UNCHANGED notWalk

\* A goroutine of the batch returns from DownloadMedia: wg.Done
WalkJobDone ==
    /\ wkOutstanding > 0
    /\ wkOutstanding' = wkOutstanding - 1
    /\ UNCHANGED <<wkBatchSize, wkHistory, wkPc, wkOffsetID, wkTotal,
                   wkRequests, wkPages, wkBatches, wkSnapshot, wkHeads,
                   wkResult>>
    /\ UNCHANGED notWalk

\* A walker that does not wait for the batch (variant)
WalkAfterWaitEarly ==
    /\ wkPc = "wait"
    /\ LET mediaList == wkBatches[Len(wkBatches)]
       IN  /\ wkTotal' = wkTotal + Len(mediaList)
           /\ wkOffsetID' = NextOffsetID(mediaList)
           /\ IF Len(mediaList) < wkBatchSize
              THEN wkPc' = "done" /\ wkResult' = "ok"
              ELSE wkPc' = "fetch" /\ UNCHANGED wkResult
    /\ UNCHANGED <<wkBatchSize, wkHistory, wkRequests, wkPages, wkBatches,
                   wkSnapshot, wkHeads, wkOutstanding>>
    /\ UNCHANGED notWalk

\* Wait returns: the walker counts the batch, moves offsetID to the last
\* descriptor's message id and goes on only after a list of batchSize
\* descriptors.
WalkAfterWait ==
    /\ wkPc = "wait"
    /\ wkOutstanding = 0
    /\ LET mediaList == wkBatches[Len(wkBatches)]
       IN  /\ wkTotal' = wkTotal + Len(mediaList)
           /\ wkOffsetID' = NextOffsetID(mediaList)
           /\ IF Len(mediaList) < wkBatchSize
              THEN wkPc' = "done" /\ wkResult' = "ok"
              ELSE wkPc' = "fetch" /\ UNCHANGED wkResult
    /\ UNCHANGED <<wkBatchSize, wkHistory, wkRequests, wkPages, wkBatches,
                   wkSnapshot, wkHeads, wkOutstanding>>
    /\ UNCHANGED notWalk

\* Somebody posts to the chat while the walk runs: the new message gets the
\* next id and becomes the head of the history.
HeadInsert(kind) ==
    /\ wkPc # "done"
    /\ Len(wkHistory) < MaxMsgs
    /\ wkHistory' = Append(wkHistory, kind)
    /\ UNCHANGED <<wkBatchSize, wkPc, wkOffsetID, wkTotal, wkRequests, wkPages,
                   wkBatches, wkSnapshot, wkHeads, wkOutstanding, wkResult>>
    /\ UNCHANGED notWalk

NextWalk ==
    \/ WalkFetch
    \/ WalkFetchFail
    \/ WalkJobDone
    \/ WalkAfterWait
    \/ \E kind \in MsgKinds : HeadInsert(kind)

SpecWalk == InitWalk /\ [][NextWalk]_vars

----------------------------------------------------------------------------
\* The download pool: DownloadBatch, DownloadSingle, DownloadMedia

InitPool ==
    /\ poolMax \in ConcurrentCounts
    /\ poolRetries \in RetryCounts
    /\ jobs = <<>>
    /\ sem = 0
    /\ stats = ZeroStats
    /\ tmpAt = [p \in PoolPaths |-> NoFile]
    /\ destAt \in {[p \in PoolPaths |-> NoFile], [p \in PoolPaths |-> OldFile]}
    /\ rootCancelled = FALSE
    /\ destAtCancel = {}
    /\ IoIdle /\ CDIdle /\ SeqIdle /\ WalkIdle /\ RpcIdle /\ LimIdle
    /\ RetryIdle /\ LiveIdle /\ ManualIdle /\ PathIdle /\ SessionIdle
    /\ ConfigIdle /\ FileIdle

\* every goroutine DownloadBatch started has called wg.Done
BatchDrained == \A j \in JobIds : jobs[j].src = "batch" => jobs[j].pc = "done"

\* ManualCheckNewMessages is not inside a DownloadSingle call
ManualDrained == \A j \in JobIds : jobs[j].src = "manual" => jobs[j].pc = "done"

RECURSIVE SumFileSize(_)
SumFileSize(list) ==
    IF list = <<>> THEN 0 ELSE Head(list).FileSize + SumFileSize(Tail(list))

\* DownloadHistoryMedia hands a page's descriptors to DownloadBatch, which
\* counts them and starts one goroutine per descriptor; the walker submits the
\* next batch only after Wait returned.
SubmitBatch(mediaList) ==
    /\ ~rootCancelled
    /\ BatchDrained
    /\ Len(jobs) + Len(mediaList) <= MaxJobs
    /\ jobs' = jobs \o [i \in 1 .. Len(mediaList) |->
                           NewJob(mediaList[i], "root", "batch")]
    /\ stats' = [stats EXCEPT !.Total = @ + Len(mediaList),
                              !.TotalSize = @ + SumFileSize(mediaList)]
    /\ UNCHANGED <<poolMax, poolRetries, sem, tmpAt, destAt, rootCancelled,
                   destAtCancel>>
    /\ UNCHANGED notPool

\* handleMessage: an update with a media message of the target chat starts a
\* goroutine that calls DownloadSingle with context.Background().
LiveSubmit(msg) ==
    /\ ~rootCancelled
    /\ isFromTargetChat(msg, TargetChatID)
    /\ hasMedia(msg)
    /\ createMediaInfo(msg).MediaType # "nil"
    /\ Len(jobs) < MaxJobs
    /\ \A j \in JobIds :
          ~(jobs[j].src = "live" /\ jobs[j].media.MessageID = msg.id)
    /\ jobs' = Append(jobs, NewJob(createMediaInfo(msg), "background", "live"))
    /\ stats' = [stats EXCEPT !.Total = @ + 1,
                              !.TotalSize = @ + createMediaInfo(msg).FileSize]
    /\ UNCHANGED <<poolMax, poolRetries, sem, tmpAt, destAt, rootCancelled,
                   destAtCancel>>
    /\ UNCHANGED notPool

\* checkForNewMessages (under ManualCheckNewMessages): DownloadSingle with
\* the caller's context, one message after the other.
ManualSubmit(msg) ==
    /\ ~rootCancelled
    /\ ManualDrained
    /\ hasMedia(msg)
    /\ createMediaInfo(msg).MediaType # "nil"
    /\ Len(jobs) < MaxJobs
    /\ jobs' = Append(jobs, NewJob(createMediaInfo(msg), "root", "manual"))
    /\ stats' = [stats EXCEPT !.Total = @ + 1,
                              !.TotalSize = @ + createMediaInfo(msg).FileSize]
    /\ UNCHANGED <<poolMax, poolRetries, sem, tmpAt, destAt, rootCancelled,
                   destAtCancel>>
    /\ UNCHANGED notPool

\* DownloadMedia up to the call of the download function: take a semaphore
\* slot, MkdirAll, build and check the path, os.Stat the destination.  An
\* existing destination counts as skipped and releases the slot.
JobEnter(j) ==
    /\ jobs[j].pc = "queued"
    /\ sem < poolMax
    /\ LET path == FilePath(jobs[j].media)
       IN  IF ~isSafePath(path)
           THEN /\ jobs' = [jobs EXCEPT ![j].pc = "done", ![j].res = "failed"]
                /\ stats' = updateStats(stats, FALSE, 0)
                /\ sem' = sem
           ELSE IF destAt[path].exists
           THEN /\ jobs' = [jobs EXCEPT ![j].pc = "done", ![j].res = "skipped"]
                /\ stats' = [stats EXCEPT !.Skipped = @ + 1]
                /\ sem' = sem
           ELSE /\ jobs' = [jobs EXCEPT ![j].pc = "download",
                                        ![j].called = TRUE]
                /\ stats' = stats
                /\ sem' = sem + 1
    /\ UNCHANGED <<poolMax, poolRetries, tmpAt, destAt, rootCancelled,
                   destAtCancel>>
    /\ UNCHANGED notPool

\* DownloadMedia: MkdirAll fails
JobMkdirFail(j) ==
    /\ jobs[j].pc = "queued"
    /\ sem < poolMax
    /\ jobs' = [jobs EXCEPT ![j].pc = "done", ![j].res = "failed"]
    /\ stats' = updateStats(stats, FALSE, 0)
    /\ UNCHANGED <<poolMax, poolRetries, sem, tmpAt, destAt, rootCancelled,
                   destAtCancel>>
    /\ UNCHANGED notPool

\* Retrier.Do finds the context cancelled before an attempt: DownloadFile
\* returns ctx.Err(), DownloadMedia counts a failure and releases the slot.
DlCancelled(j) ==
    /\ jobs[j].pc = "download"
    /\ JobCtxDone(j)
    /\ jobs' = [jobs EXCEPT ![j].pc = "done", ![j].res = "failed"]
    /\ stats' = updateStats(stats, FALSE, 0)
    /\ sem' = sem - 1
    /\ UNCHANGED <<poolMax, poolRetries, tmpAt, destAt, rootCancelled,
                   destAtCancel>>
    /\ UNCHANGED notPool

\* downloadFileTraditional: a temp file found at filePath.tmp is removed and
\* createTempFile makes a new empty one.
DlCreate(j) ==
    /\ jobs[j].pc = "download"
    /\ ~JobCtxDone(j)
    /\ tmpAt' = [tmpAt EXCEPT ![FilePath(jobs[j].media)] =
                                  [exists |-> TRUE, by |-> j]]
    /\ jobs' = [jobs EXCEPT ![j].pc = "fetch", ![j].fetched = FALSE]
    /\ UNCHANGED <<poolMax, poolRetries, sem, stats, destAt, rootCancelled,
                   destAtCancel>>
    /\ UNCHANGED notPool

\* downloadFileChunks reads the whole file into the job's temp file
DlFetchOk(j) ==
    /\ jobs[j].pc = "fetch"
    /\ ~JobCtxDone(j)
    /\ jobs' = [jobs EXCEPT ![j].pc = "rename", ![j].fetched = TRUE]
    /\ UNCHANGED <<poolMax, poolRetries, sem, stats, tmpAt, destAt,
                   rootCancelled, destAtCancel>>
    /\ UNCHANGED notPool

\* An error path that returns without giving the semaphore slot back (variant)
AfterErrorKeepSlot(j, retryable) ==
    IF retryable /\ jobs[j].attempt < poolRetries /\ ~JobCtxDone(j)
    THEN /\ jobs' = [jobs EXCEPT ![j].pc = "download", ![j].attempt = @ + 1]
         /\ stats' = stats
         /\ sem' = sem
    ELSE /\ jobs' = [jobs EXCEPT ![j].pc = "done", ![j].res = "failed"]
         /\ stats' = updateStats(stats, FALSE, 0)
         /\ sem' = sem

\* What follows an error of one attempt: Retrier.Do runs the next attempt if
\* the error is retryable, an attempt is left and the context stays alive
\* over the delay; otherwise DownloadMedia counts a failure and releases the
\* slot.
AfterError(j, retryable) ==
    IF retryable /\ jobs[j].attempt < poolRetries /\ ~JobCtxDone(j)
    THEN /\ jobs' = [jobs EXCEPT ![j].pc = "download", ![j].attempt = @ + 1]
         /\ stats' = stats
         /\ sem' = sem
    ELSE /\ jobs' = [jobs EXCEPT ![j].pc = "done", ![j].res = "failed"]
         /\ stats' = updateStats(stats, FALSE, 0)
         /\ sem' = sem - 1

\* downloadFileChunks fails (RPC error, cancelled context): cleanupTempFile
\* removes whatever is at filePath.tmp.
DlFetchFail(j) ==
    /\ jobs[j].pc = "fetch"
    /\ tmpAt' = [tmpAt EXCEPT ![FilePath(jobs[j].media)] = NoFile]
    /\ \E retryable \in BOOLEAN : AfterError(j, retryable)
    /\ UNCHANGED <<poolMax, poolRetries, destAt, rootCancelled, destAtCancel>>
    /\ UNCHANGED notPool

\* A success that keeps the semaphore slot (variant)
DlRenameOkKeepSlot(j) ==
    /\ jobs[j].pc = "rename"
    /\ LET path == FilePath(jobs[j].media)
       IN  /\ tmpAt[path].exists
           /\ destAt' = [destAt EXCEPT ![path] = tmpAt[path]]
           /\ tmpAt' = [tmpAt EXCEPT ![path] = NoFile]
    /\ jobs' = [jobs EXCEPT ![j].pc = "done", ![j].res = "downloaded"]
    /\ stats' = updateStats(stats, TRUE, jobs[j].media.FileSize)
    /\ sem' = sem
    /\ UNCHANGED <<poolMax, poolRetries, rootCancelled, destAtCancel>>
    /\ UNCHANGED notPool

\* finalizeTempFile renames what is at filePath.tmp to filePath
DlRenameOk(j) ==
    /\ jobs[j].pc = "rename"
    /\ LET path == FilePath(jobs[j].media)
       IN  /\ tmpAt[path].exists
           /\ destAt' = [destAt EXCEPT ![path] = tmpAt[path]]
           /\ tmpAt' = [tmpAt EXCEPT ![path] = NoFile]
    /\ jobs' = [jobs EXCEPT ![j].pc = "done", ![j].res = "downloaded"]
    /\ stats' = updateStats(stats, TRUE, jobs[j].media.FileSize)
    /\ sem' = sem - 1
    /\ UNCHANGED <<poolMax, poolRetries, rootCancelled, destAtCancel>>
    /\ UNCHANGED notPool

\* finalizeTempFile finds no file at filePath.tmp and returns an error
DlRenameMissing(j) ==
    /\ jobs[j].pc = "rename"
    /\ ~tmpAt[FilePath(jobs[j].media)].exists
    /\ \E retryable \in BOOLEAN : AfterError(j, retryable)
    /\ UNCHANGED <<poolMax, poolRetries, tmpAt, destAt, rootCancelled,
                   destAtCancel>>
    /\ UNCHANGED notPool

\* finalizeTempFile: os.Rename fails MaxRenameRetries times, the temp file is
\* removed and an error returned.
DlRenameFail(j) ==
    /\ jobs[j].pc = "rename"
    /\ tmpAt[FilePath(jobs[j].media)].exists
    /\ tmpAt' = [tmpAt EXCEPT ![FilePath(jobs[j].media)] = NoFile]
    /\ \E retryable \in BOOLEAN : AfterError(j, retryable)
    /\ UNCHANGED <<poolMax, poolRetries, destAt, rootCancelled, destAtCancel>>
    /\ UNCHANGED notPool

\* setupSignalHandling: a signal cancels the root context
PoolCancel ==
    /\ ~rootCancelled
    /\ rootCancelled' = TRUE
    /\ destAtCancel' = {p \in PoolPaths : destAt[p].exists}
    /\ UNCHANGED <<poolMax, poolRetries, jobs, sem, stats, tmpAt, destAt>>
    /\ UNCHANGED notPool

NextPool ==
    \/ \E mediaList \in BatchLists : SubmitBatch(mediaList)
    \/ \E msg \in PoolMessages : LiveSubmit(msg)
    \/ \E msg \in PoolMessages : ManualSubmit(msg)
    \/ \E j \in JobIds : JobEnter(j)
    \/ \E j \in JobIds : JobMkdirFail(j)
    \/ \E j \in JobIds : DlCancelled(j)
    \/ \E j \in JobIds : DlCreate(j)
    \/ \E j \in JobIds : DlFetchOk(j)
    \/ \E j \in JobIds : DlFetchFail(j)
    \/ \E j \in JobIds : DlRenameOk(j)
    \/ \E j \in JobIds : DlRenameMissing(j)
    \/ \E j \in JobIds : DlRenameFail(j)
    \/ PoolCancel

SpecPool == InitPool /\ [][NextPool]_vars

\* The steps of the goroutine running the j-th DownloadMedia call
JobStep(j) ==
    \/ JobEnter(j)
    \/ JobMkdirFail(j)
    \/ DlCancelled(j)
    \/ DlCreate(j)
    \/ DlFetchOk(j)
    \/ DlFetchFail(j)
    \/ DlRenameOk(j)
    \/ DlRenameMissing(j)
    \/ DlRenameFail(j)

\* The Go scheduler runs every goroutine that can take a step
FairPool == \A j \in 1 .. MaxJobs : WF_vars(j \in JobIds /\ JobStep(j))

SpecPoolFair == InitPool /\ [][NextPool]_vars /\ FairPool

----------------------------------------------------------------------------
\* One API call through the middleware chain of the client: floodwait.Waiter
\* around ratelimit.Limiter around the transport

\* floodwait: DefaultMaxRetries, DefaultMaxWait and MinWaitTime, in seconds
FwMaxRetries == 5
FwMaxWait == 300
MinWaitTime == 1

\* The arguments of the FLOOD_WAIT_<n> errors the model lets the server send
FloodSecs == {0, 2, 300, 301}

\* A chain with the Limiter around the Waiter (variant)
MiddlewaresLimiterFirst == <<"rateLimiter", "floodWaiter">>

\* The middlewares in the order New hands them to the client, the first one
\* outermost
Middlewares == <<"floodWaiter", "rateLimiter">>

\* the Waiter's next.Invoke is the Limiter
LimiterInsideWaiter == Middlewares[2] = "rateLimiter"

NoErr == [kind |-> "nil", secs |-> 0]
CtxErr == [kind |-> "context canceled", secs |-> 0]
FloodWaitErr(secs) == [kind |-> "FLOOD_WAIT", secs |-> secs]

\* errors of the transport that are not flood-wait errors
OtherErrs == {[kind |-> "RPC_ERROR", secs |-> 0], CtxErr}

\* tgerr.AsFloodWait
AsFloodWait(err) == err.kind = "FLOOD_WAIT"

\* A wait taken from the error as it is (variant)
FloodWaitDurationRaw(secs) == secs

\* Handle: the wait is raised to MinWaitTime
FloodWaitDuration(secs) == IF secs < MinWaitTime THEN MinWaitTime ELSE secs

\* A retry limit that lets one more attempt through (variant)
RetryLimitReachedLate(attempt) == attempt > FwMaxRetries

\* Handle: no retry is left for this attempt
RetryLimitReached(attempt) == attempt >= FwMaxRetries

\* Handle returning nil
FwOk == [ok |-> TRUE, err |-> NoErr, wrap |-> "none"]

\* Handle wrapping every error it returns (variant)
PassThroughWrapped(err) == [ok |-> FALSE, err |-> err, wrap |-> "rpc failed"]

\* Handle returning the error it got from next.Invoke as it is
PassThrough(err) == [ok |-> FALSE, err |-> err, wrap |-> "none"]

\* Handle returning fmt.Errorf("...: %w", err)
Wrapped(err, text) == [ok |-> FALSE, err |-> err, wrap |-> text]

\* The error of next.Invoke as the Waiter handles it: what Handle does next
\* (sleep or return), and with what
AfterInvokeError(err, attempt) ==
    IF ~AsFloodWait(err) THEN [pc |-> "returned", res |-> PassThrough(err)]
    ELSE IF RetryLimitReached(attempt)
    THEN [pc |-> "returned",
          res |-> Wrapped(err, "flood wait retry limit exceeded")]
    ELSE IF FloodWaitDuration(err.secs) > FwMaxWait
    THEN [pc |-> "returned", res |-> Wrapped(err, "flood wait duration too long")]
    ELSE [pc |-> "sleep", res |-> PassThrough(err)]

InitRpc ==
    /\ fwPc = "invoke"
    /\ fwAttempt = 0
    /\ fwSleeps = <<>>
    /\ fwLastErr = NoErr
    /\ fwResult = PassThrough(NoErr)
    /\ rpcReplies = <<>>
    /\ rpcInvocations = 0
    /\ rlAcquired = 0
    /\ rpcCtxDone = FALSE
    /\ IoIdle /\ CDIdle /\ SeqIdle /\ PoolIdle /\ WalkIdle /\ LimIdle
    /\ RetryIdle /\ LiveIdle /\ ManualIdle /\ PathIdle /\ SessionIdle
    /\ ConfigIdle /\ FileIdle

\* what the Waiter does with the result err of next.Invoke
FwHandle(err) ==
    IF err = NoErr
    THEN /\ fwPc' = "returned"
         /\ fwResult' = FwOk
         /\ UNCHANGED <<fwSleeps, fwLastErr>>
    ELSE LET after == AfterInvokeError(err, fwAttempt)
         IN  /\ fwPc' = after.pc
             /\ fwLastErr' = IF AsFloodWait(err) THEN err ELSE fwLastErr
             /\ IF after.pc = "sleep"
                THEN /\ fwSleeps' = Append(fwSleeps, FloodWaitDuration(err.secs))
                     /\ UNCHANGED fwResult
                ELSE /\ fwResult' = after.res
                     /\ UNCHANGED fwSleeps

\* Limiter.Handle: limiter.Wait gives the call a token
LimiterAcquire ==
    /\ fwPc = "invoke"
    /\ LimiterInsideWaiter \/ fwAttempt = 0
    /\ ~rpcCtxDone
    /\ rlAcquired' = rlAcquired + 1
    /\ fwPc' = "granted"
    /\ UNCHANGED <<fwAttempt, fwSleeps, fwLastErr, fwResult, rpcReplies,
                   rpcInvocations, rpcCtxDone>>
    /\ UNCHANGED notRpc

\* Limiter.Handle: limiter.Wait fails on the cancelled context and the error
\* goes back up the chain without the transport being invoked.
LimiterWaitFail ==
    /\ fwPc = "invoke"
    /\ LimiterInsideWaiter \/ fwAttempt = 0
    /\ rpcCtxDone
    /\ FwHandle(CtxErr)
    /\ UNCHANGED <<fwAttempt, rpcReplies, rpcInvocations, rlAcquired,
                   rpcCtxDone>>
    /\ UNCHANGED notRpc

\* The call is passed on to the transport: by the Limiter after its Wait, or
\* by a Waiter that sits inside the Limiter on a retry.
TransportInvoke ==
    /\ \/ fwPc = "granted"
       \/ fwPc = "invoke" /\ ~LimiterInsideWaiter /\ fwAttempt > 0
    /\ rpcInvocations' = rpcInvocations + 1
    /\ fwPc' = "transport"
    /\ UNCHANGED <<fwAttempt, fwSleeps, fwLastErr, fwResult, rpcReplies,
                   rlAcquired, rpcCtxDone>>
    /\ UNCHANGED notRpc

\* The transport answers with a result
TransportOk ==
    /\ fwPc = "transport"
    /\ rpcReplies' = Append(rpcReplies, NoErr)
    /\ FwHandle(NoErr)
    /\ UNCHANGED <<fwAttempt, rpcInvocations, rlAcquired, rpcCtxDone>>
    /\ UNCHANGED notRpc

\* The transport answers with FLOOD_WAIT_<secs>
TransportFloodWait(secs) ==
    /\ fwPc = "transport"
    /\ rpcReplies' = Append(rpcReplies, FloodWaitErr(secs))
    /\ FwHandle(FloodWaitErr(secs))
    /\ UNCHANGED <<fwAttempt, rpcInvocations, rlAcquired, rpcCtxDone>>
    /\ UNCHANGED notRpc

\* The transport answers with another error (the context's error only if the
\* context is cancelled)
TransportError(err) ==
    /\ fwPc = "transport"
    /\ err = CtxErr => rpcCtxDone
    /\ rpcReplies' = Append(rpcReplies, err)
    /\ FwHandle(err)
    /\ UNCHANGED <<fwAttempt, rpcInvocations, rlAcquired, rpcCtxDone>>
    /\ UNCHANGED notRpc

\* The timer of the flood wait fires: the loop goes into its next attempt, or
\* ends and Handle returns lastErr.
FwWake ==
    /\ fwPc = "sleep"
    /\ fwAttempt' = fwAttempt + 1
    /\ IF fwAttempt + 1 <= FwMaxRetries
       THEN fwPc' = "invoke" /\ UNCHANGED fwResult
       ELSE fwPc' = "returned" /\ fwResult' = PassThrough(fwLastErr)
    /\ UNCHANGED <<fwSleeps, fwLastErr, rpcReplies, rpcInvocations, rlAcquired,
                   rpcCtxDone>>
    /\ UNCHANGED notRpc

\* The context is cancelled during the flood wait: Handle returns ctx.Err()
FwSleepCancelled ==
    /\ fwPc = "sleep"
    /\ rpcCtxDone
    /\ fwPc' = "returned"
    /\ fwResult' = PassThrough(CtxErr)
    /\ UNCHANGED <<fwAttempt, fwSleeps, fwLastErr, rpcReplies, rpcInvocations,
                   rlAcquired, rpcCtxDone>>
    /\ UNCHANGED notRpc

\* The caller's context is cancelled
RpcCancel ==
    /\ fwPc # "returned"
    /\ ~rpcCtxDone
    /\ rpcCtxDone' = TRUE
    /\ UNCHANGED <<fwPc, fwAttempt, fwSleeps, fwLastErr, fwResult, rpcReplies,
                   rpcInvocations, rlAcquired>>
    /\ UNCHANGED notRpc

NextRpc ==
    \/ LimiterAcquire
    \/ LimiterWaitFail
    \/ TransportInvoke
    \/ TransportOk
    \/ \E secs \in FloodSecs : TransportFloodWait(secs)
    \/ \E err \in OtherErrs : TransportError(err)
    \/ FwWake
    \/ FwSleepCancelled
    \/ RpcCancel

SpecRpc == InitRpc /\ [][NextRpc]_vars

----------------------------------------------------------------------------
\* ratelimit.Limiter in time: the token bucket of rate.NewLimiter(r, burst)
\* under concurrent callers of Limiter.Handle, each with a context that stays
\* alive.  The clock ticks in seconds.  The rate is held as its period, the
\* seconds 1 / r between two tokens, and the bucket as the seconds of credit
\* it holds: one token is lmPeriod seconds of credit.

\* rate_limit.requests_per_second values the model draws from, as periods:
\* 1.0 and 0.5 requests per second
Periods == {1, 2}

\* rate_limit.burst_size values the model draws from
Bursts == {1, 2}

\* Bounds of the model
WindowSeconds == 10   \* the window over which requests are counted
MaxTime == 12         \* seconds the clock runs
MaxSleepers == 2      \* callers blocked in limiter.Wait at one time

\* A bucket that refills to more than its burst (variant)
AdvanceUncapped(credit, last, now, period, burst) == credit + (now - last)

\* rate.Limiter.advance: the credit held at time now, at most the burst
Advance(credit, last, now, period, burst) ==
    Min(burst * period, credit + (now - last))

\* the credit left after the reservation of one token at time lmNow; if it is
\* negative the caller has to wait that many seconds
AfterReserve ==
    Advance(lmTokens, lmLast, lmNow, lmPeriod, lmBurst) - lmPeriod

InitLim ==
    /\ lmPeriod \in Periods
    /\ lmBurst \in Bursts
    /\ lmNow = 0
    /\ lmTokens = lmBurst * lmPeriod
    /\ lmLast = 0
    /\ lmSleepers = <<>>
    /\ lmSent = <<>>
    /\ IoIdle /\ CDIdle /\ SeqIdle /\ PoolIdle /\ WalkIdle /\ RpcIdle
    /\ RetryIdle /\ LiveIdle /\ ManualIdle /\ PathIdle /\ SessionIdle
    /\ ConfigIdle /\ FileIdle

\* Limiter.Handle with a token at hand: limiter.Wait returns at once and the
\* request goes on to the transport.
LimPass ==
    /\ AfterReserve >= 0
    /\ lmTokens' = AfterReserve
    /\ lmLast' = lmNow
    /\ lmSent' = Append(lmSent, lmNow)
    /\ UNCHANGED <<lmPeriod, lmBurst, lmNow, lmSleepers>>
    /\ UNCHANGED notLim

\* Limiter.Handle with no token at hand: limiter.Wait reserves the next one
\* and sleeps until it is due.
LimReserve ==
    /\ AfterReserve < 0
    /\ Len(lmSleepers) < MaxSleepers
    /\ lmTokens' = AfterReserve
    /\ lmLast' = lmNow
    /\ lmSleepers' = Append(lmSleepers,
                            lmNow - AfterReserve)
    /\ UNCHANGED <<lmPeriod, lmBurst, lmNow, lmSent>>
    /\ UNCHANGED notLim

\* The timer of a sleeping caller fires: limiter.Wait returns and the request
\* goes on to the transport.
LimWake(i) ==
    /\ lmSleepers[i] <= lmNow
    /\ lmSent' = Append(lmSent, lmNow)
    /\ lmSleepers' = [k \in 1 .. Len(lmSleepers) - 1 |->
                         IF k < i THEN lmSleepers[k] ELSE lmSleepers[k + 1]]
    /\ UNCHANGED <<lmPeriod, lmBurst, lmNow, lmTokens, lmLast>>
    /\ UNCHANGED notLim

\* The clock moves on one second, once every timer that is due has fired;
\* lmSent keeps the requests of the last WindowSeconds seconds.
LimTick ==
    /\ lmNow < MaxTime
    /\ \A i \in 1 .. Len(lmSleepers) : lmSleepers[i] > lmNow
    /\ lmNow' = lmNow + 1
    /\ lmSent' = SelectSeq(lmSent, LAMBDA t : t >= lmNow + 1 - WindowSeconds)
    /\ UNCHANGED <<lmPeriod, lmBurst, lmTokens, lmLast, lmSleepers>>
    /\ UNCHANGED notLim

NextLim ==
    \/ LimPass
    \/ LimReserve
    \/ \E i \in 1 .. Len(lmSleepers) : LimWake(i)
    \/ LimTick

SpecLim == InitLim /\ [][NextLim]_vars

----------------------------------------------------------------------------
\* retry.Retrier: one call of Do.  Durations are in milliseconds.  The text
\* of an error is a sequence of pieces, cut where the patterns of
\* DefaultShouldRetry cut it.

DefaultMaxRetries == 3
DefaultBaseDelay == 1000
DefaultMaxDelay == 30000
RandomPrecision == 1000

\* DefaultJitterFactor, in percent
JitterFactorPercent == 10

\* retry.max_retries and retry.base_delay values the model draws from
MaxRetriesValues == {0, 2, DefaultMaxRetries}
BaseDelays == {DefaultBaseDelay, 20000}

\* What rand.Int(rand.Reader, RandomPrecision) gives: a number below
\* RandomPrecision, or an error, for which RandFailed stands
RandFailed == RandomPrecision
RandomDraws == {0, 500, RandomPrecision - 1, RandFailed}

NilError == [text |-> <<>>]

\* ctx.Err()
CtxCanceled == [text |-> <<"context canceled">>]

\* The patterns without one of them (variant)
RetryablePatternsShort ==
    {"connection", "timeout", "network",
     "INTERNAL_SERVER_ERROR", "NETWORK_MIGRATE", "PHONE_MIGRATE",
     "FILE_MIGRATE", "USER_MIGRATE", "STATS_MIGRATE"}

\* DefaultShouldRetry: the substrings it looks for
RetryablePatterns ==
    {"connection", "timeout", "network", "temporary",
     "INTERNAL_SERVER_ERROR", "NETWORK_MIGRATE", "PHONE_MIGRATE",
     "FILE_MIGRATE", "USER_MIGRATE", "STATS_MIGRATE"}

\* strings.Contains
Contains(text, pattern) == \E i \in 1 .. Len(text) : text[i] = pattern

\* DefaultShouldRetry
DefaultShouldRetry(err) ==
    /\ err # NilError
    /\ \E p \in RetryablePatterns : Contains(err.text, p)

\* The errors fn returns in the model: some that hold a word errors of the
\* network or of Telegram are made of, and some that hold none
FnErrors ==
    {[text |-> <<"rpc error: ", w, "_2">>] :
        w \in {"connection", "timeout", "network", "temporary",
               "INTERNAL_SERVER_ERROR", "NETWORK_MIGRATE", "PHONE_MIGRATE",
               "FILE_MIGRATE", "USER_MIGRATE", "STATS_MIGRATE"}}
    \cup {[text |-> <<"network", " ", "timeout", " error">>],
           [text |-> <<"invalid parameter error">>],
           [text |-> <<"Connection reset, Timeout">>],
           [text |-> <<"FLOOD_WAIT_5">>],
           CtxCanceled}

\* What Do returns
DoNil == [err |-> NilError, wrapped |-> FALSE, retries |-> 0]
DoErr(err) == [err |-> err, wrapped |-> FALSE, retries |-> 0]

\* fmt.Errorf("operation failed after %d retries, last error: %w", ...)
Exhausted(retries, err) == [err |-> err, wrapped |-> TRUE, retries |-> retries]

\* A loop that gives up one attempt early (variant)
LastAttemptEarly(attempt, maxRetries) == attempt + 1 >= maxRetries

\* Do: attempt == r.config.MaxRetries
LastAttempt(attempt, maxRetries) == attempt = maxRetries

\* A check at the top of the loop that never sees the cancellation (variant)
CheckCancelledNever(done) == FALSE

\* Do: the select on ctx.Done() at the top of the loop
CheckCancelled(done) == done

\* calculateDelay: BaseDelay * 2^attempt, cut at MaxDelay
BackoffDelay(cfg, attempt) ==
    LET delay == cfg.BaseDelay * 2 ^ attempt
    IN  IF delay > cfg.MaxDelay THEN cfg.MaxDelay ELSE delay

\* calculateDelay: delay * JitterFactor * (randomFloat * 2 - 1), rounded down
Jitter(delay, draw) ==
    (delay * JitterFactorPercent * (draw * 2 - RandomPrecision))
        \div (100 * RandomPrecision)

\* calculateDelay
calculateDelay(cfg, attempt, draw) ==
    LET delay == BackoffDelay(cfg, attempt)
    IN  IF JitterFactorPercent > 0
        THEN IF draw = RandFailed THEN delay
             ELSE IF delay + Jitter(delay, draw) < 0 THEN cfg.BaseDelay
             ELSE delay + Jitter(delay, draw)
        ELSE delay

InitRetry ==
    /\ rtCfg \in [MaxRetries : MaxRetriesValues, BaseDelay : BaseDelays,
                  MaxDelay : {DefaultMaxDelay}]
    /\ rtPc = "check"
    /\ rtAttempt = 0
    /\ rtExecs = 0
    /\ rtFailed = 0
    /\ rtWaits = 0
    /\ rtLastErr = NilError
    /\ rtDelay = 0
    /\ rtResult = DoNil
    /\ rtCtxDone = FALSE
    /\ IoIdle /\ CDIdle /\ SeqIdle /\ PoolIdle /\ WalkIdle /\ RpcIdle /\ LimIdle
    /\ LiveIdle /\ ManualIdle /\ PathIdle /\ SessionIdle /\ ConfigIdle
    /\ FileIdle

\* Do, top of the loop: the context is alive, fn is called next
RetryCheckOk ==
    /\ rtPc = "check"
    /\ ~CheckCancelled(rtCtxDone)
    /\ rtPc' = "call"
    /\ UNCHANGED <<rtCfg, rtAttempt, rtExecs, rtFailed, rtWaits, rtLastErr,
                   rtDelay, rtResult, rtCtxDone>>
    /\ UNCHANGED notRetry

\* Do, top of the loop: the context is done, Do returns ctx.Err()
RetryCheckCancelled ==
    /\ rtPc = "check"
    /\ CheckCancelled(rtCtxDone)
    /\ rtPc' = "returned"
    /\ rtResult' = DoErr(CtxCanceled)
    /\ UNCHANGED <<rtCfg, rtAttempt, rtExecs, rtFailed, rtWaits, rtLastErr,
                   rtDelay, rtCtxDone>>
    /\ UNCHANGED notRetry

\* fn() returns nil: Do returns nil
RetryCallOk ==
    /\ rtPc = "call"
    /\ rtExecs' = rtExecs + 1
    /\ rtPc' = "returned"
    /\ rtResult' = DoNil
    /\ UNCHANGED <<rtCfg, rtAttempt, rtFailed, rtWaits, rtLastErr, rtDelay,
                   rtCtxDone>>
    /\ UNCHANGED notRetry

\* fn() returns err: Do returns it if ShouldRetry says no, gives up after the
\* last attempt, and otherwise computes the delay and starts to wait
RetryCallFail(err, draw) ==
    /\ rtPc = "call"
    /\ rtExecs' = rtExecs + 1
    /\ rtFailed' = rtFailed + 1
    /\ rtLastErr' = err
    /\ IF ~DefaultShouldRetry(err)
       THEN /\ rtPc' = "returned"
            /\ rtResult' = DoErr(err)
            /\ UNCHANGED <<rtDelay, rtWaits>>
       ELSE IF LastAttempt(rtAttempt, rtCfg.MaxRetries)
       THEN /\ rtPc' = "returned"
            /\ rtResult' = Exhausted(rtCfg.MaxRetries, err)
            /\ UNCHANGED <<rtDelay, rtWaits>>
       ELSE /\ rtPc' = "sleep"
            /\ rtDelay' = calculateDelay(rtCfg, rtAttempt, draw)
            /\ rtWaits' = rtWaits + 1
            /\ UNCHANGED rtResult
    /\ UNCHANGED <<rtCfg, rtAttempt, rtCtxDone>>
    /\ UNCHANGED notRetry

\* time.After(delay) fires: the next attempt
RetryWake ==
    /\ rtPc = "sleep"
    /\ rtAttempt' = rtAttempt + 1
    /\ rtPc' = "check"
    /\ UNCHANGED <<rtCfg, rtExecs, rtFailed, rtWaits, rtLastErr, rtDelay,
                   rtResult, rtCtxDone>>
    /\ UNCHANGED notRetry

\* ctx.Done() during the wait: Do returns ctx.Err()
RetrySleepCancelled ==
    /\ rtPc = "sleep"
    /\ rtCtxDone
    /\ rtPc' = "returned"
    /\ rtResult' = DoErr(CtxCanceled)
    /\ UNCHANGED <<rtCfg, rtAttempt, rtExecs, rtFailed, rtWaits, rtLastErr,
                   rtDelay, rtCtxDone>>
    /\ UNCHANGED notRetry

\* The caller's context is cancelled
RetryCancel ==
    /\ rtPc # "returned"
    /\ ~rtCtxDone
    /\ rtCtxDone' = TRUE
    /\ UNCHANGED <<rtCfg, rtPc, rtAttempt, rtExecs, rtFailed, rtWaits,
                   rtLastErr, rtDelay, rtResult>>
    /\ UNCHANGED notRetry

NextRetry ==
    \/ RetryCheckOk
    \/ RetryCheckCancelled
    \/ RetryCallOk
    \/ \E err \in FnErrors, draw \in RandomDraws : RetryCallFail(err, draw)
    \/ RetryWake
    \/ RetrySleepCancelled
    \/ RetryCancel

SpecRetry == InitRetry /\ [][NextRetry]_vars

----------------------------------------------------------------------------
\* The live follower: the dispatcher's handlers of UpdateNewMessage and
\* UpdateNewChannelMessage (handleNewMessage, handleNewChannelMessage,
\* handleMessage) with the configured target TargetChatID.

\* Bounds of the model
MaxUpdates == 2       \* updates the dispatcher delivers

\* The peers whose messages the account receives: the target and another one
LivePeers == {TargetChatID, 111}

\* The message of an update: a *tg.Message with a PeerID (nil, or a peer of
\* one of the three classes) and a Media (none, a photo, a document with an
\* optional file name, or another media such as a geo point), or a
\* *tg.MessageService
LiveMessages ==
    {[id |-> 0, peerClass |-> pc, peer |-> p, class |-> "Message",
      media |-> md, fileID |-> 7,
      sizes |-> << [class |-> "PhotoSize", size |-> 2, type |-> "x"] >>,
      attrs |-> <<>>, docSize |-> 3, mime |-> "application/pdf"] :
        pc \in {"PeerChannel", "PeerChat", "PeerUser"}, p \in LivePeers,
        md \in {"none", "photo", "document", "geo"}}
    \cup {[id |-> 0, peerClass |-> "nil", peer |-> 0, class |-> "Message",
           media |-> md, fileID |-> 7, sizes |-> <<>>, attrs |-> <<>>,
           docSize |-> 3, mime |-> ""] : md \in {"none", "document"}}
    \cup {[id |-> 0, peerClass |-> "PeerChannel", peer |-> p,
           class |-> "MessageService", media |-> "none", fileID |-> 0,
           sizes |-> <<>>, attrs |-> <<>>, docSize |-> 0, mime |-> ""] :
              p \in LivePeers}

UpdateClasses == {"UpdateNewMessage", "UpdateNewChannelMessage"}

InitLive ==
    /\ lvUpdates = <<>>
    /\ lvAttempts = <<>>
    /\ IoIdle /\ CDIdle /\ SeqIdle /\ PoolIdle /\ WalkIdle /\ RpcIdle /\ LimIdle
    /\ RetryIdle /\ ManualIdle /\ PathIdle /\ SessionIdle /\ ConfigIdle
    /\ FileIdle

\* handleMessage: the descriptors it hands to DownloadSingle for the message,
\* none or one
handleMessage(message, targetChatID) ==
    IF ~isFromTargetChat(message, targetChatID) THEN <<>>
    ELSE IF ~hasMedia(message) THEN <<>>
    ELSE IF createMediaInfo(message) = NilMedia THEN <<>>
    ELSE <<createMediaInfo(message)>>

\* handleNewMessage, handleNewChannelMessage: an update whose message is not
\* a *tg.Message is dropped, any other goes to handleMessage
handleUpdate(update, targetChatID) ==
    IF update.message.class # "Message" THEN <<>>
    ELSE handleMessage(update.message, targetChatID)

\* The dispatcher delivers an update of the given class; its message gets the
\* next message id.  The goroutine handleMessage starts calls DownloadSingle.
LiveUpdate(class, msg) ==
    LET update == [class |-> class,
                   message |-> [msg EXCEPT !.id = Len(lvUpdates) + 1]]
    IN  /\ Len(lvUpdates) < MaxUpdates
        /\ lvUpdates' = Append(lvUpdates, update)
        /\ lvAttempts' = lvAttempts \o handleUpdate(update, TargetChatID)
        /\ UNCHANGED notLive

NextLive ==
    \E class \in UpdateClasses, msg \in LiveMessages : LiveUpdate(class, msg)

SpecLive == InitLive /\ [][NextLive]_vars

----------------------------------------------------------------------------
\* Client.ManualCheckNewMessages and checkForNewMessages, called again and
\* again while messages arrive in the chat.  The chat holds the messages
\* 1 .. mcTop; what a message is follows from its id.

DefaultMessageLimit == 20

\* Bounds of the model
MaxTop == 24          \* messages the chat ever holds

\* The kind of the message with the given id
ManualKind(id) ==
    CASE id % 3 = 1 -> "photo"
      [] id % 3 = 2 -> "text"
      [] OTHER -> "service"

\* The history of the chat when its newest message has the id top
ManualHistory(top) == [i \in 1 .. top |-> ManualKind(i)]

\* getLastMessageID: the id of the newest message if it is a *tg.Message, or 0
getLastMessageID(history) ==
    LET page == GetHistory(history, [OffsetID |-> 0, AddOffset |-> 0,
                                     Limit |-> 1])
    IN  IF Len(page) > 0 /\ page[1].class = "Message" THEN page[1].id ELSE 0

\* A test that takes every fetched message for a new one (variant)
IsNewMessageAlways(id, lastMessageID) == TRUE

\* checkForNewMessages: msg.ID > lastMessageID
IsNewMessage(id, lastMessageID) == id > lastMessageID

\* checkForNewMessages: the descriptors handed to DownloadSingle for the
\* messages of the page, in page order
RECURSIVE NewMediaOf(_, _)
NewMediaOf(page, lastMessageID) ==
    IF page = <<>> THEN <<>>
    ELSE LET msg == Head(page)
             rest == NewMediaOf(Tail(page), lastMessageID)
         IN  IF /\ msg.class = "Message"
                /\ IsNewMessage(msg.id, lastMessageID)
                /\ hasMedia(msg)
                /\ createMediaInfo(msg) # NilMedia
             THEN <<createMediaInfo(msg)>> \o rest
             ELSE rest

\* What a call of ManualCheckNewMessages did
CallRecord(result, latest, top, submitted) ==
    [result |-> result, before |-> mcLastSeen, latest |-> latest,
     top |-> top, submitted |-> submitted]

InitManual ==
    /\ mcTop \in {0, 1}
    /\ mcLastSeen = 0
    /\ mcPc = "ready"
    /\ mcLatest = 0
    /\ mcCall = [result |-> "none", before |-> 0, latest |-> 0, top |-> 0,
                 submitted |-> <<>>]
    /\ IoIdle /\ CDIdle /\ SeqIdle /\ PoolIdle /\ WalkIdle /\ RpcIdle /\ LimIdle
    /\ RetryIdle /\ LiveIdle /\ PathIdle /\ SessionIdle /\ ConfigIdle
    /\ FileIdle

\* A message arrives in the chat
ManualArrive ==
    /\ mcTop < MaxTop
    /\ mcTop' = mcTop + 1
    /\ UNCHANGED <<mcLastSeen, mcPc, mcLatest, mcCall>>
    /\ UNCHANGED notManual

\* ManualCheckNewMessages up to the call of checkForNewMessages: the newest
\* id is asked for; the call ends with an error if there is none, records the
\* id if none is cached, ends if the id is not above the cached one, and
\* goes on to fetch otherwise.  ok is whether the request succeeded.
ManualQuery(ok) ==
    LET latestID == IF ok THEN getLastMessageID(ManualHistory(mcTop)) ELSE 0
    IN  /\ mcPc = "ready"
        /\ mcLatest' = latestID
        /\ IF latestID = 0
           THEN /\ mcCall' = CallRecord("no latest id", latestID, mcTop, <<>>)
                /\ UNCHANGED <<mcLastSeen, mcPc>>
           ELSE IF mcLastSeen = 0
           THEN /\ mcLastSeen' = latestID
                /\ mcCall' = CallRecord("initialised", latestID, mcTop, <<>>)
                /\ UNCHANGED mcPc
           ELSE IF latestID > mcLastSeen
           THEN /\ mcPc' = "fetch"
                /\ UNCHANGED <<mcLastSeen, mcCall>>
           ELSE /\ mcCall' = CallRecord("no new messages", latestID, mcTop,
                                        <<>>)
                /\ UNCHANGED <<mcLastSeen, mcPc>>
        /\ UNCHANGED mcTop
        /\ UNCHANGED notManual

\* checkForNewMessages succeeds: the media of the new messages among the
\* DefaultMessageLimit newest goes to DownloadSingle, and
\* ManualCheckNewMessages sets lastMessageID to latestID.
ManualFetchOk ==
    LET page == GetHistory(ManualHistory(mcTop),
                           [OffsetID |-> 0, AddOffset |-> 0,
                            Limit |-> DefaultMessageLimit])
    IN  /\ mcPc = "fetch"
        /\ mcCall' = CallRecord("checked", mcLatest, mcTop,
                                NewMediaOf(page, mcLastSeen))
        /\ mcLastSeen' = mcLatest
        /\ mcPc' = "ready"
        /\ UNCHANGED <<mcTop, mcLatest>>
        /\ UNCHANGED notManual

\* checkForNewMessages fails: ManualCheckNewMessages returns the error
ManualFetchFail ==
    /\ mcPc = "fetch"
    /\ mcCall' = CallRecord("fetch failed", mcLatest, mcTop, <<>>)
    /\ mcPc' = "ready"
    /\ UNCHANGED <<mcTop, mcLastSeen, mcLatest>>
    /\ UNCHANGED notManual

NextManual ==
    \/ ManualArrive
    \/ \E ok \in BOOLEAN : ManualQuery(ok)
    \/ ManualFetchOk
    \/ ManualFetchFail

SpecManual == InitManual /\ [][NextManual]_vars

----------------------------------------------------------------------------
\* Downloader.DownloadMedia, the destination path character by character.
\* A string is a sequence of characters (text that holds no character the
\* code looks at may stand as one piece); a cleaned absolute path is the
\* sequence of its components.

\* Bounds of the model
MaxNameLen == 4       \* characters of a file name

\* The characters of the file names the model draws
NameChars == {"a", ".", "/", "\\", ":", "|"}

\* media.FileName of the submissions
FileNames == UNION {[1 .. n -> NameChars] : n \in 0 .. MaxNameLen}

\* filepath.Abs(d.downloadPath)
AbsDownloadPath == << <<"cwd">>, <<"downloads">> >>

\* strings.ReplaceAll
RECURSIVE ReplaceAll(_, _, _)
ReplaceAll(s, old, new) ==
    IF Len(s) < Len(old) THEN s
    ELSE IF SubSeq(s, 1, Len(old)) = old
    THEN new \o ReplaceAll(SubSeq(s, Len(old) + 1, Len(s)), old, new)
    ELSE <<Head(s)>> \o ReplaceAll(Tail(s), old, new)

\* sanitizeFileName: what it replaces by "_", in its order
SanitizePatterns ==
    << <<"/">>, <<"\\">>, <<".", ".">>, <<":">>, <<"*">>, <<"?">>, <<"\"">>,
       <<"<">>, <<">">>, <<"|">> >>

RECURSIVE ReplaceEach(_, _)
ReplaceEach(s, i) ==
    IF i > Len(SanitizePatterns) THEN s
    ELSE ReplaceEach(ReplaceAll(s, SanitizePatterns[i], <<"_">>), i + 1)

\* The replacements alone, without the default name (variant)
sanitizeFileNameNoDefault(fileName) == ReplaceEach(fileName, 1)

\* sanitizeFileName, on characters
sanitizeFileNameChars(fileName) ==
    LET r == ReplaceEach(fileName, 1)
    IN  IF r = <<>> \/ r = <<".">> \/ r = <<".", ".">>
        THEN <<"unnamed_file">>
        ELSE r

\* the components of a path, cut at the separators
RECURSIVE SplitPath(_, _)
SplitPath(s, cur) ==
    IF s = <<>> THEN <<cur>>
    ELSE IF Head(s) = "/" THEN <<cur>> \o SplitPath(Tail(s), <<>>)
    ELSE SplitPath(Tail(s), Append(cur, Head(s)))

\* filepath.Clean of an absolute path: "" and "." are dropped, ".." takes
\* the component before it away
RECURSIVE CleanFrom(_, _)
CleanFrom(done, rest) ==
    IF rest = <<>> THEN done
    ELSE LET c == Head(rest)
         IN  IF c = <<>> \/ c = <<".">> THEN CleanFrom(done, Tail(rest))
             ELSE IF c = <<".", ".">>
             THEN CleanFrom(IF done = <<>> THEN <<>>
                            ELSE SubSeq(done, 1, Len(done) - 1), Tail(rest))
             ELSE CleanFrom(Append(done, c), Tail(rest))

\* filepath.Abs(filepath.Join(dir, name)) for an absolute, clean dir
JoinAbs(dir, name) == CleanFrom(dir, SplitPath(name, <<>>))

\* the length of the common prefix of two paths
RECURSIVE CommonPrefix(_, _)
CommonPrefix(a, b) ==
    IF a = <<>> \/ b = <<>> \/ Head(a) # Head(b) THEN 0
    ELSE 1 + CommonPrefix(Tail(a), Tail(b))

\* filepath.Rel(base, target) of two absolute, clean paths, as a string
RECURSIVE JoinString(_)
JoinString(comps) ==
    IF comps = <<>> THEN <<>>
    ELSE IF Len(comps) = 1 THEN comps[1]
    ELSE comps[1] \o <<"/">> \o JoinString(Tail(comps))

Rel(base, target) ==
    LET k == CommonPrefix(base, target)
        up == [i \in 1 .. Len(base) - k |-> <<".", ".">>]
        down == SubSeq(target, k + 1, Len(target))
    IN  IF up \o down = <<>> THEN <<".">> ELSE JoinString(up \o down)

\* strings.HasPrefix
HasPrefix(s, prefix) ==
    Len(s) >= Len(prefix) /\ SubSeq(s, 1, Len(prefix)) = prefix

\* strings.Contains, on characters
ContainsChars(s, sub) ==
    \E i \in 1 .. Len(s) - Len(sub) + 1 : SubSeq(s, i, i + Len(sub) - 1) = sub

\* isSafePath, on absolute paths
isSafePathAbs(absFilePath, absBasePath) ==
    LET relPath == Rel(absBasePath, absFilePath)
    IN  /\ ~HasPrefix(relPath, <<".", ".">>)
        /\ ~ContainsChars(relPath, <<"/", ".", ".">>)

\* A path taken from the file name as it is, and never refused (variant)
FilePathUnchecked(fileName, messageID, fileID, mimeType, chatID) ==
    [path |-> JoinAbs(AbsDownloadPath, <<"chat_", ToString(chatID), "/">>
                                         \o fileName),
     safe |-> TRUE]

\* DownloadMedia: the destination path of a descriptor and whether
\* isSafePath accepts it
FilePathChecked(fileName, messageID, fileID, mimeType, chatID) ==
    LET name == IF fileName = <<>>
                THEN <<"file_", ToString(messageID), "_", ToString(fileID),
                       getFileExtension(mimeType)>>
                ELSE fileName
        chatDir == JoinAbs(AbsDownloadPath, <<"chat_", ToString(chatID)>>)
        filePath == JoinAbs(chatDir, sanitizeFileNameChars(name))
    IN  [path |-> filePath, safe |-> isSafePathAbs(filePath, AbsDownloadPath)]

InitPath ==
    /\ ptFileName \in FileNames
    /\ ptPc = "queued"
    /\ ptPath = <<>>
    /\ ptFiles = {}
    /\ ptFailed = 0
    /\ IoIdle /\ CDIdle /\ SeqIdle /\ PoolIdle /\ WalkIdle /\ RpcIdle /\ LimIdle
    /\ RetryIdle /\ LiveIdle /\ ManualIdle /\ SessionIdle /\ ConfigIdle
    /\ FileIdle

\* DownloadMedia up to the call of the download function, for a document of
\* the target chat with the file name ptFileName: the path is built and
\* checked; an unsafe path counts as failed and ends the submission.
PathEnter ==
    LET p == FilePathChecked(ptFileName, 2, 9, "application/pdf",
                             TargetChatID)
    IN  /\ ptPc = "queued"
        /\ ptPath' = p.path
        /\ IF p.safe
           THEN /\ ptPc' = "download"
                /\ UNCHANGED ptFailed
           ELSE /\ ptPc' = "refused"
                /\ ptFailed' = ptFailed + 1
        /\ UNCHANGED <<ptFileName, ptFiles>>
        /\ UNCHANGED notPath

\* The download function is invoked for the path: the file is made there
PathDownload ==
    /\ ptPc = "download"
    /\ ptFiles' = ptFiles \cup {ptPath}
    /\ ptPc' = "done"
    /\ UNCHANGED <<ptFileName, ptPath, ptFailed>>
    /\ UNCHANGED notPath

NextPath ==
    \/ PathEnter
    \/ PathDownload

SpecPath == InitPath /\ [][NextPath]_vars

----------------------------------------------------------------------------
\* session.Manager: the session files of a session directory under
\* HasValidSession, ClearSession, GetSessionStorage and the writes of the
\* file storage.

\* Bounds of the model
MaxCalls == 4         \* operations on the session directory

\* The phone numbers of the model
Phones == {"+1", "+2"}

\* The sizes of the session files written
SessionSizes == {0, 1, 2}

\* filepath.Join(m.sessionDir, fmt.Sprintf("session_%s.json", phone))
sessionFile(phone) == <<"sessions", "session_" \o phone \o ".json">>

SessionFiles == {sessionFile(phone) : phone \in Phones}

AbsentEntry == [exists |-> FALSE, size |-> 0]
FileEntry(size) == [exists |-> TRUE, size |-> size]

\* A test of existence alone (variant)
HasValidSessionAnySize(files, phone, statFails) ==
    LET entry == files[sessionFile(phone)]
    IN  IF ~entry.exists THEN FALSE
        ELSE IF statFails THEN FALSE
        ELSE TRUE

\* HasValidSession.  statFails: os.Stat fails on an existing entry
HasValidSession(files, phone, statFails) ==
    LET entry == files[sessionFile(phone)]
    IN  IF ~entry.exists THEN FALSE
        ELSE IF statFails THEN FALSE
        ELSE entry.size > 0

\* A clear for which an absent file is an error (variant)
ClearSessionStrict(files, phone, removeFails) ==
    LET path == sessionFile(phone)
    IN  IF ~files[path].exists \/ removeFails
        THEN [files |-> files, err |-> "remove failed"]
        ELSE [files |-> [files EXCEPT ![path] = AbsentEntry], err |-> "nil"]

\* ClearSession: the files after it and the error it returns.  removeFails:
\* os.Remove fails on an existing entry
ClearSession(files, phone, removeFails) ==
    LET path == sessionFile(phone)
    IN  IF ~files[path].exists THEN [files |-> files, err |-> "nil"]
        ELSE IF removeFails
        THEN [files |-> files, err |-> "remove failed"]
        ELSE [files |-> [files EXCEPT ![path] = AbsentEntry], err |-> "nil"]

InitSession ==
    /\ ssFiles \in [SessionFiles -> {AbsentEntry, FileEntry(0), FileEntry(2)}]
    /\ ssCalls = 0
    /\ ssLast = [op |-> "none"]
    /\ IoIdle /\ CDIdle /\ SeqIdle /\ PoolIdle /\ WalkIdle /\ RpcIdle /\ LimIdle
    /\ RetryIdle /\ LiveIdle /\ ManualIdle /\ PathIdle /\ ConfigIdle
    /\ FileIdle

\* A call of HasValidSession(phone)
CallHasValidSession(phone, statFails) ==
    /\ ssCalls < MaxCalls
    /\ ssCalls' = ssCalls + 1
    /\ ssLast' = [op |-> "HasValidSession", phone |-> phone,
                  statFails |-> statFails,
                  result |-> HasValidSession(ssFiles, phone, statFails)]
    /\ UNCHANGED ssFiles
    /\ UNCHANGED notSession

\* A call of ClearSession(phone)
CallClearSession(phone, removeFails) ==
    LET r == ClearSession(ssFiles, phone, removeFails)
    IN  /\ ssCalls < MaxCalls
        /\ ssCalls' = ssCalls + 1
        /\ ssFiles' = r.files
        /\ ssLast' = [op |-> "ClearSession", phone |-> phone, err |-> r.err,
                      before |-> ssFiles]
        /\ UNCHANGED notSession

\* GetSessionStorage(phone), alone or under one of the CreateClientWith...
\* functions: the directory is made, the storage names the session file
CallGetSessionStorage(phone, mkdirFails) ==
    /\ ssCalls < MaxCalls
    /\ ssCalls' = ssCalls + 1
    /\ ssLast' = [op |-> "GetSessionStorage", phone |-> phone,
                  storage |-> IF mkdirFails THEN <<>> ELSE sessionFile(phone)]
    /\ UNCHANGED ssFiles
    /\ UNCHANGED notSession

\* The file storage of the client writes the session of phone
StoreSession(phone, size) ==
    /\ ssCalls < MaxCalls
    /\ ssCalls' = ssCalls + 1
    /\ ssFiles' = [ssFiles EXCEPT ![sessionFile(phone)] = FileEntry(size)]
    /\ ssLast' = [op |-> "StoreSession", phone |-> phone]
    /\ UNCHANGED notSession

NextSession ==
    \/ \E phone \in Phones, statFails \in BOOLEAN :
          CallHasValidSession(phone, statFails)
    \/ \E phone \in Phones, removeFails \in BOOLEAN :
          CallClearSession(phone, removeFails)
    \/ \E phone \in Phones, mkdirFails \in BOOLEAN :
          CallGetSessionStorage(phone, mkdirFails)
    \/ \E phone \in Phones, size \in SessionSizes : StoreSession(phone, size)

SpecSession == InitSession /\ [][NextSession]_vars

----------------------------------------------------------------------------
\* config.LoadConfig: config.yaml, the .env file and the environment, read
\* into a Config, filled with the defaults and validated.  Of the options the
\* model has the three of the API section and download.path,
\* download.max_concurrent, download.batch_size, log.level and session.dir.
\* A value of the environment that is a number is held as the sequence of its
\* characters, <<>> being the empty string.

DefaultDownloadPath == "./downloads"
DefaultLogLevel == "info"
DefaultSessionDir == "./sessions"
DefaultMaxConcurrent == 5
DefaultBatchSize == 100

\* The zero Config
ZeroConfig ==
    [apiID |-> 0, apiHash |-> "", phone |-> "", path |-> "",
     maxConcurrent |-> 0, batchSize |-> 0, logLevel |-> "",
     sessionDir |-> ""]

\* The contents config.yaml may have
YamlConfigs ==
    [apiID : {0, 5}, apiHash : {"", "h"}, phone : {"", "+1"},
     path : {"", "/data"}, maxConcurrent : {0, 3}, batchSize : {0, 50},
     logLevel : {"", "debug"}, sessionDir : {"", "/s"}]

\* config.yaml: not there, there and not readable, there and not YAML, or
\* there with a content
ConfigFiles ==
    {[kind |-> "absent"], [kind |-> "unreadable"], [kind |-> "malformed"]}
        \cup {[kind |-> "yaml", config |-> c] : c \in YamlConfigs}

\* An environment without a variable
NoEnviron ==
    [API_ID |-> <<>>, API_HASH |-> "", PHONE |-> "", DOWNLOAD_PATH |-> "",
     MAX_CONCURRENT_DOWNLOADS |-> <<>>, BATCH_SIZE |-> <<>>,
     LOG_LEVEL |-> "", SESSION_DIR |-> ""]

\* The environments of the process
Environs ==
    [API_ID : {<<>>, <<"0">>, <<"7">>, <<"x">>}, API_HASH : {"", "e"},
     PHONE : {"", "+2"}, DOWNLOAD_PATH : {"", "/env"},
     MAX_CONCURRENT_DOWNLOADS : {<<>>, <<"1", "2">>, <<"9", "x">>},
     BATCH_SIZE : {<<>>}, LOG_LEVEL : {"", "warn"}, SESSION_DIR : {"", "/es"}]

\* The .env files: none, or one with the API section and a batch size
DotenvFiles ==
    {NoEnviron,
     [NoEnviron EXCEPT !.API_ID = <<"8">>, !.API_HASH = "d", !.PHONE = "+3",
                       !.BATCH_SIZE = <<"-", "2">>]}

Digits == {"0", "1", "2", "3", "4", "5", "6", "7", "8", "9"}

DigitVal(c) ==
    CASE c = "0" -> 0 [] c = "1" -> 1 [] c = "2" -> 2 [] c = "3" -> 3
      [] c = "4" -> 4 [] c = "5" -> 5 [] c = "6" -> 6 [] c = "7" -> 7
      [] c = "8" -> 8 [] c = "9" -> 9

RECURSIVE DigitsVal(_)
DigitsVal(s) ==
    IF s = <<>> THEN 0
    ELSE DigitsVal(SubSeq(s, 1, Len(s) - 1)) * 10 + DigitVal(s[Len(s)])

\* strconv.Atoi: an optional sign and decimal digits
Atoi(s) ==
    LET signed == s # <<>> /\ s[1] \in {"+", "-"}
        digits == IF signed THEN Tail(s) ELSE s
    IN  IF digits = <<>> \/ \E i \in 1..Len(digits) : digits[i] \notin Digits
        THEN [ok |-> FALSE, val |-> 0]
        ELSE [ok |-> TRUE,
              val |-> IF signed /\ s[1] = "-" THEN 0 - DigitsVal(digits)
                      ELSE DigitsVal(digits)]

\* godotenv.Load: the variables of .env the environment does not have
godotenvLoad(environ, dotenv) ==
    [v \in DOMAIN environ |->
        IF environ[v] = NoEnviron[v] THEN dotenv[v] ELSE environ[v]]

\* loadFromYAML
loadFromYAML(config, file) ==
    CASE file.kind = "absent" -> [config |-> config, err |-> "nil"]
      [] file.kind = "unreadable" ->
            [config |-> config, err |-> "read config file"]
      [] file.kind = "malformed" ->
            [config |-> config, err |-> "parse config file"]
      [] file.kind = "yaml" -> [config |-> file.config, err |-> "nil"]

\* An integer option under its variable
EnvInt(old, value) ==
    IF value # <<>> /\ Atoi(value).ok THEN Atoi(value).val ELSE old

\* A string option under its variable
EnvString(old, value) == IF value # "" THEN value ELSE old

\* loadFromEnv
loadFromEnv(config, environ) ==
    [apiID |-> EnvInt(config.apiID, environ.API_ID),
     apiHash |-> EnvString(config.apiHash, environ.API_HASH),
     phone |-> EnvString(config.phone, environ.PHONE),
     path |-> EnvString(config.path, environ.DOWNLOAD_PATH),
     maxConcurrent |->
         EnvInt(config.maxConcurrent, environ.MAX_CONCURRENT_DOWNLOADS),
     batchSize |-> EnvInt(config.batchSize, environ.BATCH_SIZE),
     logLevel |-> EnvString(config.logLevel, environ.LOG_LEVEL),
     sessionDir |-> EnvString(config.sessionDir, environ.SESSION_DIR)]

\* setDefaults
setDefaults(config) ==
    [config EXCEPT
        !.path = IF @ = "" THEN DefaultDownloadPath ELSE @,
        !.maxConcurrent = IF @ = 0 THEN DefaultMaxConcurrent ELSE @,
        !.batchSize = IF @ = 0 THEN DefaultBatchSize ELSE @,
        !.logLevel = IF @ = "" THEN DefaultLogLevel ELSE @,
        !.sessionDir = IF @ = "" THEN DefaultSessionDir ELSE @]

\* A validation that leaves the phone out (variant)
validateConfigNoPhone(config) ==
    IF config.apiID = 0 \/ config.apiHash = ""
    THEN "missing API configuration"
    ELSE "nil"

\* validateConfig
validateConfig(config) ==
    IF config.apiID = 0 \/ config.apiHash = "" \/ config.phone = ""
    THEN "missing API configuration"
    ELSE "nil"

\* LoadConfig: the Config and the error it returns
LoadConfig(file, environ, dotenv) ==
    LET env == godotenvLoad(environ, dotenv)
        loaded == loadFromYAML(ZeroConfig, file)
        config == setDefaults(loadFromEnv(loaded.config, env))
    IN  IF loaded.err # "nil" THEN [err |-> loaded.err]
        ELSE IF validateConfig(config) # "nil"
        THEN [err |-> validateConfig(config)]
        ELSE [err |-> "nil", config |-> config]

InitConfig ==
    /\ cfFile \in ConfigFiles
    /\ cfDotenv \in DotenvFiles
    /\ cfEnviron \in Environs
    /\ cfPc = "start"
    /\ cfResult = [err |-> "nil"]
    /\ IoIdle /\ CDIdle /\ SeqIdle /\ PoolIdle /\ WalkIdle /\ RpcIdle /\ LimIdle
    /\ RetryIdle /\ LiveIdle /\ ManualIdle /\ PathIdle /\ SessionIdle
    /\ FileIdle

\* The call of LoadConfig at the start of the program
CallLoadConfig ==
    /\ cfPc = "start"
    /\ cfResult' = LoadConfig(cfFile, cfEnviron, cfDotenv)
    /\ cfPc' = "loaded"
    /\ UNCHANGED <<cfFile, cfDotenv, cfEnviron>>
    /\ UNCHANGED notConfig

NextConfig == CallLoadConfig

SpecConfig == InitConfig /\ [][NextConfig]_vars

----------------------------------------------------------------------------
\* Client.DownloadFile on the chunked path, fetch by fetch: Retrier.Do around
\* ChunkDownloader.DownloadToFile.  Every attempt of the Retrier is a new
\* DownloadToFile, which sends every chunk of the file to the workers; a
\* worker fetches its chunk up to MaxDownloadRetries times.  The files of the
\* model have fewer chunks than there are workers, so that every chunk sent
\* can be in a worker's hands at once.

\* Bounds of the model
MaxFileChunks == 2    \* chunks of the file DownloadFile is called for

FileChunks == 1 .. dfChunks

InitFile ==
    /\ dfChunks \in 1 .. MaxFileChunks
    /\ dfRetries \in {0, 1}
    /\ dfPc = "check"
    /\ dfAttempt = 0
    /\ dfState = [c \in FileChunks |-> "none"]
    /\ dfTries = [c \in FileChunks |-> 0]
    /\ dfCalls = [c \in FileChunks |-> 0]
    /\ dfOks = [c \in FileChunks |-> 0]
    /\ dfCtxDone = FALSE
    /\ dfResult = "none"
    /\ IoIdle /\ CDIdle /\ SeqIdle /\ PoolIdle /\ WalkIdle /\ RpcIdle /\ LimIdle
    /\ RetryIdle /\ LiveIdle /\ ManualIdle /\ PathIdle /\ SessionIdle
    /\ ConfigIdle

\* Retrier.Do: the context check, then fn: DownloadToFile makes the temp file
\* anew and sendChunkJobs sends every chunk
FileAttempt ==
    /\ dfPc = "check"
    /\ IF dfCtxDone
       THEN /\ dfPc' = "returned"
            /\ dfResult' = "ctx"
            /\ UNCHANGED <<dfState, dfTries>>
       ELSE /\ dfPc' = "download"
            /\ dfState' = [c \in FileChunks |-> "sent"]
            /\ dfTries' = [c \in FileChunks |-> 0]
            /\ UNCHANGED dfResult
    /\ UNCHANGED <<dfChunks, dfRetries, dfAttempt, dfCalls, dfOks, dfCtxDone>>
    /\ UNCHANGED notFile

\* worker: one downloadFunc(job.offset, job.size) call of the retry loop.
\* A reply ends the loop; the MaxDownloadRetries-th failure is reported.
FileFetch(c, ok) ==
    /\ dfPc = "download"
    /\ dfState[c] = "sent"
    /\ dfTries[c] > 0 \/ ~dfCtxDone
    /\ dfCalls' = [dfCalls EXCEPT ![c] = @ + 1]
    /\ dfTries' = [dfTries EXCEPT ![c] = @ + 1]
    /\ IF ok
       THEN /\ dfOks' = [dfOks EXCEPT ![c] = @ + 1]
            /\ dfState' = [dfState EXCEPT ![c] = "written"]
       ELSE /\ dfOks' = dfOks
            /\ dfState' = [dfState EXCEPT ![c] =
                              IF dfTries[c] + 1 < MaxDownloadRetries
                              THEN "sent" ELSE "failed"]
    /\ UNCHANGED <<dfChunks, dfRetries, dfPc, dfAttempt, dfCtxDone, dfResult>>
    /\ UNCHANGED notFile

\* worker: the context is found done before the first fetch of a chunk
FileChunkCancelled(c) ==
    /\ dfPc = "download"
    /\ dfState[c] = "sent"
    /\ dfTries[c] = 0
    /\ dfCtxDone
    /\ dfState' = [dfState EXCEPT ![c] = "failed"]
    /\ UNCHANGED <<dfChunks, dfRetries, dfPc, dfAttempt, dfTries, dfCalls,
                   dfOks, dfCtxDone, dfResult>>
    /\ UNCHANGED notFile

\* Every chunk is written: DownloadToFile renames and returns nil, and so
\* does Retrier.Do
FileDone ==
    /\ dfPc = "download"
    /\ \A c \in FileChunks : dfState[c] = "written"
    /\ dfPc' = "returned"
    /\ dfResult' = "ok"
    /\ UNCHANGED <<dfChunks, dfRetries, dfAttempt, dfState, dfTries, dfCalls,
                   dfOks, dfCtxDone>>
    /\ UNCHANGED notFile

\* A worker has reported an error: DownloadToFile removes the temp file and
\* returns the error.  Retrier.Do ends on an error that is not retryable or
\* after MaxRetries re-attempts, and else waits and goes on to the next
\* attempt.
FileFailed(retryable) ==
    /\ dfPc = "download"
    /\ \E c \in FileChunks : dfState[c] = "failed"
    /\ IF retryable /\ dfAttempt < dfRetries
       THEN /\ dfPc' = "check"
            /\ dfAttempt' = dfAttempt + 1
            /\ UNCHANGED dfResult
       ELSE /\ dfPc' = "returned"
            /\ dfResult' = "error"
            /\ UNCHANGED dfAttempt
    /\ UNCHANGED <<dfChunks, dfRetries, dfState, dfTries, dfCalls, dfOks,
                   dfCtxDone>>
    /\ UNCHANGED notFile

\* The caller's context is cancelled
FileCancel ==
    /\ dfPc \in {"check", "download"}
    /\ ~dfCtxDone
    /\ dfCtxDone' = TRUE
    /\ UNCHANGED <<dfChunks, dfRetries, dfPc, dfAttempt, dfState, dfTries,
                   dfCalls, dfOks, dfResult>>
    /\ UNCHANGED notFile

NextFile ==
    \/ FileAttempt
    \/ \E c \in FileChunks, ok \in BOOLEAN : FileFetch(c, ok)
    \/ \E c \in FileChunks : FileChunkCancelled(c)
    \/ FileDone
    \/ \E retryable \in BOOLEAN : FileFailed(retryable)
    \/ FileCancel

SpecFile == InitFile /\ [][NextFile]_vars

----------------------------------------------------------------------------
\* Properties

\* C1: destPath is never observable in a partial state: whenever it exists it
\* holds the complete size bytes, every chunk range fetched and written at
\* its offset before the rename.
C1_DestNeverPartial ==
    destFile.exists => Complete(destFile, cdSize, cdChunkSize)

\* C3: if the context was cancelled before every chunk was written, then
\* DownloadToFile has returned an error, the temp file is unlinked and
\* destPath does not exist.
C3_CancelYieldsErrorAndCleanup ==
    (cdPc = "returned" /\ ctxDoneEarly) =>
        /\ cdResult # "ok"
        /\ ~tempFile.exists
        /\ ~destFile.exists

\* C7: every fetch(offset, limit) call issued has offset and limit multiples
\* of 1024 and limit <= 524288.
C7_FetchAligned ==
    \A f \in fetchLog :
        /\ f.offset % APIAlignment = 0
        /\ f.limit % APIAlignment = 0
        /\ f.limit <= MaxAPILimit

\* The extents of a file in position order, as <<from, n>> ranges
RECURSIVE ExtentsInOrder(_)
ExtentsInOrder(S) ==
    IF S = {} THEN <<>>
    ELSE LET e == CHOOSE x \in S : \A y \in S : x[1] <= y[1]
         IN  <<<<e[2], e[3]>>>> \o ExtentsInOrder(S \ {e})

NonEmptyReply(r) == r[2] > 0

\* C2: a file published through the sequential path has size == declaredSize
\* and holds the fetched byte ranges concatenated in offset order, whatever
\* the server replied (short replies included).
C2_SeqPublishedComplete ==
    destFile.exists =>
        /\ destFile.len = seqSize
        /\ ExtentsInOrder(destFile.written) = SelectSeq(seqFetched, NonEmptyReply)

\* C4: the submissions of one MediaDescriptor, none of them failed or
\* retried: at most one of them calls the download function, and once all
\* have returned all but one are counted as skipped.
C4_DedupOneDownload ==
    \A d \in HistoryDescs \cup LiveDescs :
        LET same == {j \in JobIds : jobs[j].media = d}
        IN  (\A j \in same : jobs[j].res # "failed" /\ jobs[j].attempt = 0) =>
               /\ Cardinality({j \in same : jobs[j].called}) <= 1
               /\ (\A j \in same : jobs[j].pc = "done") =>
                     Cardinality({j \in same : jobs[j].res = "skipped"})
                         >= Cardinality(same) - 1

\* C5: a media file of the chat is read from the network by at most one
\* DownloadMedia call of the run and published by at most one, whichever of
\* the history walker, the live handler and the manual check submitted it.
C5_AtMostOncePerFile ==
    \A msg \in PoolMessages :
        LET of == {j \in JobIds : jobs[j].media.FileID = msg.fileID}
        IN  /\ Cardinality({j \in of : jobs[j].fetched}) <= 1
            /\ Cardinality({j \in of : jobs[j].res = "downloaded"}) <= 1

\* C6: the root context is cancelled and every DownloadMedia call has
\* returned: no temp file is left and every destination file that exists
\* existed when the context was cancelled.
C6_CancelLeavesNothing ==
    (rootCancelled /\ \A j \in JobIds : jobs[j].pc = "done") =>
        /\ \A p \in PoolPaths : ~tmpAt[p].exists
        /\ {p \in PoolPaths : destAt[p].exists} \subseteq destAtCancel

\* C8: every page before the last one requested held exactly batchSize
\* messages, and a walk that ended normally ended on a page of fewer than
\* batchSize messages.
C8_StopsOnlyAfterShortPage ==
    /\ \A k \in 1 .. Len(wkPages) - 1 : Len(wkPages[k]) = wkBatchSize
    /\ (wkPc = "done" /\ wkResult = "ok") =>
           Len(wkPages[Len(wkPages)]) < wkBatchSize

\* C9: the first request has offset_id 0, the offset_id of the later
\* requests strictly decreases, and every message id of a batch is smaller
\* than every message id of the batch before it.
C9_MonotonePagination ==
    /\ \A i \in 1 .. Len(wkRequests) :
          /\ (i = 1) => wkRequests[i].OffsetID = 0
          /\ (i > 2) => wkRequests[i].OffsetID < wkRequests[i - 1].OffsetID
    /\ \A k \in 1 .. Len(wkBatches) - 1 :
          \A a \in 1 .. Len(wkBatches[k]), b \in 1 .. Len(wkBatches[k + 1]) :
              wkBatches[k + 1][b].MessageID < wkBatches[k][a].MessageID

\* a walk of three requests whose second batch holds two descriptors
C9_Witness ==
    /\ Len(wkRequests) >= 3
    /\ Len(wkBatches) >= 2
    /\ Len(wkBatches[2]) = 2

\* The batches a walk submits over a history that does not change
RECURSIVE WalkFrom(_, _, _, _)
WalkFrom(history, batchSize, offsetID, total) ==
    LET page == GetHistory(history, HistoryRequest(offsetID, total, batchSize))
        mediaList == MediaListOf(page)
    IN  IF Len(mediaList) = 0 THEN <<>>
        ELSE IF Len(mediaList) < batchSize THEN <<mediaList>>
        ELSE <<mediaList>> \o WalkFrom(history, batchSize,
                                       NextOffsetID(mediaList),
                                       total + Len(mediaList))

\* the message ids submitted so far, in order
RECURSIVE SubmittedIds(_)
SubmittedIds(batches) ==
    IF batches = <<>> THEN <<>>
    ELSE [i \in 1 .. Len(Head(batches)) |-> Head(batches)[i].MessageID]
             \o SubmittedIds(Tail(batches))

\* C10: the batches submitted are, in order, those of the walk over the
\* history as it was when the first page was read, all of them once the
\* walk has ended normally; no message is submitted twice.
C10_WalkIgnoresHeadInserts ==
    (wkRequests # <<>>) =>
        LET ref == WalkFrom(wkSnapshot, wkBatchSize, 0, 0)
            ids == SubmittedIds(wkBatches)
        IN  /\ Len(wkBatches) <= Len(ref)
            /\ \A k \in 1 .. Len(wkBatches) : wkBatches[k] = ref[k]
            /\ (wkPc = "done" /\ wkResult = "ok") => wkBatches = ref
            /\ \A i \in 1 .. Len(ids), j \in 1 .. Len(ids) :
                  i # j => ids[i] # ids[j]

\* a message arrived between the first and the second request of a walk that
\* went on to submit a second batch and ended normally
C10_Witness ==
    /\ wkPc = "done"
    /\ wkResult = "ok"
    /\ Len(wkBatches) >= 2
    /\ Len(wkHeads) >= 2
    /\ wkHeads[2] > wkHeads[1]

\* the jobs that ended in an error
FailedJobs == {j \in JobIds : jobs[j].res = "failed"}

\* C11: failed counts exactly the DownloadMedia calls that ended in an error;
\* the step in which one call fails changes no other call; every call
\* submitted runs to an outcome whatever became of the others; and once the
\* goroutines of a batch have returned the walker can hand over the next
\* batch, failures or not.
C11_ErrorsDoNotAbort ==
    /\ [](stats.Failed = Cardinality(FailedJobs))
    /\ [][\A j \in JobIds :
            (jobs[j].res # "failed" /\ jobs'[j].res = "failed") =>
                \A k \in JobIds \ {j} : jobs'[k] = jobs[k]]_vars
    /\ \A j \in 1 .. MaxJobs :
          (Len(jobs) >= j) ~> (Len(jobs) >= j /\ jobs[j].pc = "done")
    /\ []((BatchDrained /\ ~rootCancelled /\ Len(jobs) < MaxJobs) =>
             ENABLED (\E mediaList \in BatchLists : SubmitBatch(mediaList)))

\* the download function failed for the first file of a batch and the
\* second file of the batch was downloaded
C11_Witness ==
    /\ Len(jobs) = 2
    /\ jobs[1].src = "batch" /\ jobs[2].src = "batch"
    /\ jobs[1].called /\ jobs[1].res = "failed"
    /\ jobs[2].res = "downloaded"
    /\ stats.Failed = 1

C13_CeilingAndFloor ==
    /\ \A i \in 1 .. Len(rpcReplies) :
          (AsFloodWait(rpcReplies[i]) /\ rpcReplies[i].secs > FwMaxWait) =>
              /\ i = Len(rpcReplies)
              /\ fwPc = "returned"
              /\ ~fwResult.ok
              /\ fwResult.wrap # "none"
              /\ Len(fwSleeps) = i - 1
              /\ rpcInvocations = i
    /\ \A i \in 1 .. Len(fwSleeps) :
          /\ fwSleeps[i] >= MinWaitTime
          /\ rpcReplies[i].secs >= MinWaitTime =>
                 fwSleeps[i] = rpcReplies[i].secs

\* FLOOD_WAIT_0 was slept for one second, then FLOOD_WAIT_301 ended the call
C13_Witness ==
    /\ Len(rpcReplies) = 2
    /\ rpcReplies[1] = FloodWaitErr(0)
    /\ rpcReplies[2] = FloodWaitErr(301)
    /\ fwSleeps = <<MinWaitTime>>
    /\ fwPc = "returned"
    /\ fwResult.wrap = "flood wait duration too long"

\* C14: an answer that is an error but not a flood-wait error is the last
\* answer of the call: Handle has returned that error, unwrapped, with no
\* sleep and no invocation after it (one invocation if it was the first
\* answer).
C14_OtherErrorsPassThrough ==
    \A i \in 1 .. Len(rpcReplies) :
        (rpcReplies[i] \in OtherErrs) =>
            /\ i = Len(rpcReplies)
            /\ fwPc = "returned"
            /\ fwResult = [ok |-> FALSE, err |-> rpcReplies[i], wrap |-> "none"]
            /\ Len(fwSleeps) = i - 1
            /\ rpcInvocations = i

\* the first answer was an RPC error and Handle returned
C14_Witness ==
    /\ Len(rpcReplies) = 1
    /\ rpcReplies[1].kind = "RPC_ERROR"
    /\ fwPc = "returned"
    /\ rpcInvocations = 1

\* C15: every invocation at the transport has taken a token of its own: the
\* tokens given out are the invocations made, plus one while a call holds a
\* token it has not yet passed on; and a call that has returned (a failed
\* token wait included) has no invocation without an answer.
C15_TokenBeforeTransport ==
    /\ rpcInvocations <= rlAcquired
    /\ rlAcquired = rpcInvocations + (IF fwPc = "granted" THEN 1 ELSE 0)
    /\ fwPc = "returned" => rpcInvocations = Len(rpcReplies)

\* the retry after a flood wait took a second token before the transport was
\* invoked again
C15_Witness ==
    /\ Len(fwSleeps) = 1
    /\ rlAcquired = 2
    /\ rpcInvocations = 2

\* C16: with rate R = 1 / lmPeriod requests per second and burst B, the
\* requests passed on to the transport within any window of WindowSeconds
\* seconds number at most WindowSeconds * R + B, however many callers are
\* in Limiter.Handle.  lmSent holds the requests of the window that ends now.
C16_RateLimit ==
    Len(lmSent) * lmPeriod <= WindowSeconds + lmBurst * lmPeriod

\* C16 witness: a full window has passed, callers have slept in limiter.Wait
\* side by side, and the window holds as many requests as the limit allows
C16_Witness ==
    /\ lmNow >= WindowSeconds
    /\ Len(lmSleepers) = MaxSleepers
    /\ Len(lmSent) * lmPeriod = WindowSeconds + lmBurst * lmPeriod
    /\ lmPeriod = 1
    /\ lmBurst = 2

\* C17: Do executes fn at most MaxRetries + 1 times.  A call that returns nil
\* has executed fn once more than fn failed: the first success ends it.  A
\* call whose context stayed alive and whose last error is retryable ends,
\* unless fn succeeded, only when fn has been executed MaxRetries + 1 times,
\* and it then returns "operation failed after MaxRetries retries" around
\* the last error.
C17_RetriesUntilSuccessOrExhaustion ==
    /\ rtExecs <= rtCfg.MaxRetries + 1
    /\ (rtPc = "returned" /\ rtResult = DoNil) => rtExecs = rtFailed + 1
    /\ (rtPc = "returned" /\ ~rtCtxDone /\ rtResult # DoNil
            /\ DefaultShouldRetry(rtLastErr)) =>
           /\ rtExecs = rtCfg.MaxRetries + 1
           /\ rtFailed = rtCfg.MaxRetries + 1
           /\ rtResult = Exhausted(rtCfg.MaxRetries, rtLastErr)
    /\ (rtPc = "returned" /\ rtResult.wrapped) =>
           /\ rtExecs = rtCfg.MaxRetries + 1
           /\ rtResult.err = rtLastErr
           /\ rtResult.retries = rtCfg.MaxRetries

\* C17 witness: with the default of three retries, a network timeout error on
\* each of four executions ends in the wrapped error
C17_Witness ==
    /\ rtPc = "returned"
    /\ ~rtCtxDone
    /\ rtCfg.MaxRetries = DefaultMaxRetries
    /\ rtLastErr = [text |-> <<"network", " ", "timeout", " error">>]
    /\ rtResult = Exhausted(DefaultMaxRetries, rtLastErr)
    /\ rtExecs = DefaultMaxRetries + 1
    /\ rtWaits = DefaultMaxRetries

\* the texts C18 names
C18_Named(err) ==
    \E p \in {"connection", "timeout", "network", "temporary",
              "INTERNAL_SERVER_ERROR", "NETWORK_MIGRATE", "PHONE_MIGRATE",
              "FILE_MIGRATE", "USER_MIGRATE", "STATS_MIGRATE"} :
        Contains(err.text, p)

C19_CancellationStopsDo ==
    [][(rtCtxDone /\ rtPc \in {"check", "sleep"}) =>
           /\ rtExecs' = rtExecs
           /\ rtPc' \in {"check", "returned"}
           /\ rtPc = "check" => rtPc' = "returned"
           /\ rtPc' = "returned" => rtResult' = DoErr(CtxCanceled)]_vars

\* C19 witness: after a retryable error and a wait, Do has returned the
\* error of the cancelled context
C19_Witness ==
    /\ rtPc = "returned"
    /\ rtCtxDone
    /\ rtResult = DoErr(CtxCanceled)
    /\ rtWaits >= 1
    /\ rtExecs = rtWaits
    /\ DefaultShouldRetry(rtLastErr)

\* C20: the wait the Retrier computed is at most MaxDelay, and every sleep of
\* the flood waiter is at most its ceiling.
C20_BoundedWaits ==
    /\ rtDelay <= rtCfg.MaxDelay
    /\ \A i \in 1 .. Len(fwSleeps) : fwSleeps[i] <= FwMaxWait

\* the messages C21 counts: messages (not service messages) of the target
\* peer that carry a photo or a document
C21_TargetMedia(update) ==
    /\ update.message.class = "Message"
    /\ update.message.peerClass # "nil"
    /\ update.message.peer = TargetChatID
    /\ update.message.media \in {"photo", "document"}

\* C21: for every sequence of updates, the download attempts are, in order,
\* those for the media messages of the target peer among them, each with the
\* target as its chat; an update of another peer adds none.
C21_OnlyTargetPeer ==
    LET wanted == SelectSeq(lvUpdates, C21_TargetMedia)
    IN  /\ Len(lvAttempts) = Len(wanted)
        /\ \A i \in 1 .. Len(wanted) :
              /\ lvAttempts[i].MessageID = wanted[i].message.id
              /\ lvAttempts[i].ChatID = TargetChatID
              /\ lvAttempts[i].MediaType = wanted[i].message.media

\* C21 witness: a photo of peer 111, then a photo of the target, gave one
\* attempt, for the target's message
C21_Witness ==
    /\ Len(lvUpdates) = 2
    /\ lvUpdates[1].message.peer = 111
    /\ lvUpdates[1].message.media = "photo"
    /\ lvUpdates[2].message.peer = TargetChatID
    /\ lvUpdates[2].message.media = "photo"
    /\ Len(lvAttempts) = 1
    /\ lvAttempts[1].MessageID = 2
    /\ lvAttempts[1].ChatID = TargetChatID

\* the ids C22 expects a check to submit: the photos among the 20 newest
\* messages at the fetch whose id is above the cached id, newest first
C22_Expected(top, before) ==
    LET n == IF top < 20 THEN top ELSE 20
    IN  SelectSeq([k \in 1 .. n |-> top - k + 1],
                  LAMBDA id : id > before /\ id % 3 = 1)

\* C22: the first call, with no cached id, records the newest id and submits
\* nothing; a later call that finds a newer id submits exactly the media
\* messages above the cached id among the 20 newest and then sets the cached
\* id to the id it found; a call that fails, or finds nothing newer, submits
\* nothing and leaves the cached id; and the cached id never decreases.
C22_ManualCheck ==
    /\ [](/\ mcCall.result = "initialised" =>
                /\ mcCall.before = 0
                /\ mcCall.submitted = <<>>
                /\ mcLastSeen = mcCall.latest
          /\ mcCall.result = "checked" =>
                /\ mcCall.before # 0
                /\ mcCall.latest > mcCall.before
                /\ [i \in 1 .. Len(mcCall.submitted) |->
                       mcCall.submitted[i].MessageID]
                     = C22_Expected(mcCall.top, mcCall.before)
                /\ mcLastSeen = mcCall.latest
          /\ mcCall.result \in {"fetch failed", "no latest id",
                                "no new messages"} =>
                /\ mcCall.submitted = <<>>
                /\ mcLastSeen = mcCall.before
          /\ mcCall.result = "no new messages" =>
                mcCall.latest <= mcCall.before)
    /\ [][mcLastSeen' >= mcLastSeen]_vars

\* C22 witness: a check with a cached id fetched 20 messages, some of them
\* not above the cached id, and submitted the media above it
C22_Witness ==
    /\ mcCall.result = "checked"
    /\ mcCall.top >= 20
    /\ mcCall.before > mcCall.top - 20
    /\ Len(mcCall.submitted) >= 2
    /\ mcLastSeen = mcCall.latest

\* abs(P) is abs(root) followed by a separator and something more
C23_UnderRoot(path) ==
    /\ Len(path) > Len(AbsDownloadPath)
    /\ SubSeq(path, 1, Len(AbsDownloadPath)) = AbsDownloadPath

\* C23: for every file name, a path for which the download function is
\* invoked lies under the download root, and so does every file made; a
\* path that does not is refused: the submission counts as failed and no
\* file is made.
C23_PathSafety ==
    /\ ptPc \in {"download", "done"} => C23_UnderRoot(ptPath)
    /\ \A f \in ptFiles : C23_UnderRoot(f)
    /\ (ptPc \in {"download", "refused", "done"} /\ ~C23_UnderRoot(ptPath)) =>
           /\ ptPc = "refused"
           /\ ptFailed = 1
           /\ ptFiles = {}
    /\ ptPc = "refused" => (ptFailed = 1 /\ ptFiles = {})

\* C23 witness: the file name "../." went to the download function as a
\* file of the chat's directory
C23_Witness ==
    /\ ptFileName = <<".", ".", "/", ".">>
    /\ ptPc = "done"
    /\ ptPath = AbsDownloadPath \o << <<"chat_", "1">>, <<"_", "_", ".">> >>
    /\ ptFiles = {ptPath}

C25_AlwaysCleared ==
    ssLast.op = "ClearSession" =>
        /\ ssLast.err = "nil"
        /\ ~ssFiles[sessionFile(ssLast.phone)].exists
        /\ ~HasValidSession(ssFiles, ssLast.phone, FALSE)

\* C25 as amended: a ClearSession(phone) returns no error when the file is
\* absent and when os.Remove removes it, and then leaves the file of phone
\* missing, every other file as it was, and HasValidSession(phone) false; a
\* ClearSession whose os.Remove is refused returns the error and leaves every
\* file as it was; a second clear after one without error changes nothing
\* more; and a session file that is there goes missing in no step but a
\* ClearSession of its phone.
C25_ClearSession ==
    /\ [](ssLast.op = "ClearSession" =>
            LET path == sessionFile(ssLast.phone)
            IN  /\ ssLast.err = "nil" =>
                      /\ ~ssFiles[path].exists
                      /\ ~HasValidSession(ssFiles, ssLast.phone, FALSE)
                      /\ \A f \in SessionFiles \ {path} :
                            ssFiles[f] = ssLast.before[f]
                /\ ~ssLast.before[path].exists => ssLast.err = "nil"
                /\ ssLast.err # "nil" => ssFiles = ssLast.before)
    /\ [][(ssLast.op = "ClearSession" /\ ssLast.err = "nil"
             /\ ssLast'.op = "ClearSession" /\ ssLast'.phone = ssLast.phone)
            => (ssFiles' = ssFiles /\ ssLast'.err = "nil")]_vars
    /\ [][\A f \in SessionFiles :
            (ssFiles[f].exists /\ ~ssFiles'[f].exists) =>
                (ssLast'.op = "ClearSession"
                   /\ sessionFile(ssLast'.phone) = f)]_vars

\* C25 witness: a session file of size 2 was cleared, and cleared again
C25_Witness ==
    /\ ssLast.op = "ClearSession"
    /\ ssLast.err = "nil"
    /\ ssLast.phone = "+1"
    /\ ~ssLast.before[sessionFile("+1")].exists
    /\ ssCalls = 2
    /\ ssFiles[sessionFile("+2")] = FileEntry(2)

\* The value of a string option after the environment has overridden the
\* file: the variable of the environment, else that of .env, else the file's
C26_String(variable, field) ==
    IF cfEnviron[variable] # "" THEN cfEnviron[variable]
    ELSE IF cfDotenv[variable] # "" THEN cfDotenv[variable]
    ELSE IF cfFile.kind = "yaml" THEN cfFile.config[field]
    ELSE ""

\* The api id after the environment has overridden the file
C26_ApiID ==
    CASE cfEnviron.API_ID = <<"0">> -> 0
      [] cfEnviron.API_ID = <<"7">> -> 7
      [] cfEnviron.API_ID \in {<<>>, <<"x">>} ->
            IF cfEnviron.API_ID = <<>> /\ cfDotenv.API_ID = <<"8">> THEN 8
            ELSE IF cfFile.kind = "yaml" THEN cfFile.config.apiID
            ELSE 0

\* The identity of the API is missing after the overrides
C26_Missing ==
    \/ C26_ApiID = 0
    \/ C26_String("API_HASH", "apiHash") = ""
    \/ C26_String("PHONE", "phone") = ""

\* C26 as stated: LoadConfig returns an error exactly when the api id is 0 or
\* the api hash or the phone is empty after the overrides.
C26_ErrorOnlyForIdentity ==
    cfPc = "loaded" => ((cfResult.err # "nil") <=> C26_Missing)

\* C26 as amended: LoadConfig returns an error when config.yaml is there and
\* cannot be read or parsed, and otherwise exactly when the api id is 0 or the
\* api hash or the phone is empty after the overrides; the configuration it
\* returns has the default for every option of the five that neither the file
\* nor the environment sets, and the value set for the others.
C26_LoadConfig ==
    cfPc = "loaded" =>
        /\ (cfResult.err # "nil") <=>
              (cfFile.kind \in {"unreadable", "malformed"} \/ C26_Missing)
        /\ cfResult.err = "nil" =>
              LET c == cfResult.config
                  path == C26_String("DOWNLOAD_PATH", "path")
                  level == C26_String("LOG_LEVEL", "logLevel")
                  dir == C26_String("SESSION_DIR", "sessionDir")
                  fileSets(field) ==
                      cfFile.kind = "yaml" /\ cfFile.config[field] # 0
              IN  /\ c.apiID = C26_ApiID /\ c.apiID # 0
                  /\ c.apiHash = C26_String("API_HASH", "apiHash")
                  /\ c.phone = C26_String("PHONE", "phone")
                  /\ c.path = IF path = "" THEN "./downloads" ELSE path
                  /\ c.logLevel = IF level = "" THEN "info" ELSE level
                  /\ c.sessionDir = IF dir = "" THEN "./sessions" ELSE dir
                  /\ c.maxConcurrent =
                        IF cfEnviron.MAX_CONCURRENT_DOWNLOADS = <<"1", "2">>
                        THEN 12
                        ELSE IF fileSets("maxConcurrent")
                        THEN cfFile.config.maxConcurrent
                        ELSE 5
                  /\ c.batchSize =
                        IF cfDotenv.BATCH_SIZE = <<"-", "2">> THEN 0 - 2
                        ELSE IF fileSets("batchSize")
                        THEN cfFile.config.batchSize
                        ELSE 100

\* C26 witness: without config.yaml and with the API section in the
\* environment alone LoadConfig returned the five defaults
C26_Witness ==
    /\ cfPc = "loaded"
    /\ cfFile.kind = "absent"
    /\ cfDotenv = NoEnviron
    /\ cfResult.err = "nil"
    /\ cfResult.config =
          [apiID |-> 7, apiHash |-> "e", phone |-> "+2",
           path |-> "./downloads", maxConcurrent |-> 5, batchSize |-> 100,
           logLevel |-> "info", sessionDir |-> "./sessions"]

\* C27: no two download invocations that are running at the same time have
\* the same temp path: of the DownloadMedia calls that have made their temp
\* file and have not yet renamed or removed it, no two have the same
\* destination path.
C27_ExclusiveTempFile ==
    \A j \in JobIds : \A k \in JobIds :
        (/\ j # k
         /\ jobs[j].pc \in {"fetch", "rename"}
         /\ jobs[k].pc \in {"fetch", "rename"})
            => FilePath(jobs[j].media) # FilePath(jobs[k].media)

\* C28: a chunk worker waiting in its retry delay when the context is
\* cancelled stops waiting and issues no further fetch: with the context
\* done, a worker that has a failed fetch behind it and a retry ahead makes
\* no step that is a call of the download function.
C28_RetryDelayObservesCancel ==
    [][\A w \in Workers :
          (ctxDone /\ wPc[w] = "fetch" /\ wRetry[w] > 0) =>
              (wRetry'[w] = wRetry[w] /\ wPc'[w] # "write")]_vars

\* C29: after DownloadToFile has returned the error of a worker (a failed
\* chunk, a failed write, a cancelled context), no worker of the invocation
\* calls the download function for another chunk and none writes to the temp
\* file.
C29_NoWorkAfterError ==
    [][(cdPc = "returned" /\ cdResult \in {"fetch", "write", "ctx"}) =>
          (fetchLog' = fetchLog /\ tempFile' = tempFile)]_vars

\* The first error in a channel of worker reports, "nil" if there is none
RECURSIVE C30_FirstError(_)
C30_FirstError(reports) ==
    IF reports = <<>> THEN "nil"
    ELSE IF Head(reports) # "nil" THEN Head(reports)
    ELSE C30_FirstError(Tail(reports))

\* C30 as stated: when DownloadToFile has returned the error of a worker or
\* of the rename, the temp file is unlinked and the destination is not there.
C30_FailureUnlinksTemp ==
    (cdPc = "returned" /\ cdResult \in {"fetch", "write", "ctx", "rename"}) =>
        (~tempFile.exists /\ ~destFile.exists)

\* C30 as amended: when DownloadToFile has returned the error of a worker or
\* of the rename, the destination is not there and the temp file is unlinked
\* unless its os.Remove failed (which is logged), in which case it is still
\* there; the error of a worker that is returned is the first error the
\* workers reported, every report read before it being nil; and the error of
\* the rename is returned after MaxRenameRetries failed renames and no error
\* of a worker.
C30_FailureBestEffort ==
    /\ []((cdPc = "returned"
             /\ cdResult \in {"fetch", "write", "ctx", "rename"}) =>
            /\ ~destFile.exists
            /\ tempFile.exists = removeFailed)
    /\ [][(cdResult = "none" /\ cdResult' \in {"fetch", "write", "ctx"}) =>
            cdResult' = C30_FirstError(errorChan)]_vars
    /\ [][(cdResult = "none" /\ Len(errorChan') < Len(errorChan)) =>
            (Head(errorChan) = "nil" \/ cdResult' = Head(errorChan))]_vars
    /\ [][(cdResult = "none" /\ cdResult' = "rename") =>
            /\ renameRetry' = 5
            /\ errorChan = <<>>
            /\ errorChanClosed]_vars

\* C30 witness: a chunk failed its fetches, DownloadToFile removed the temp
\* file and returned that error, and a later write error of another worker
\* lies unread in the channel
C30_Witness ==
    /\ cdPc = "returned"
    /\ cdResult = "fetch"
    /\ ~tempFile.exists
    /\ ~removeFailed
    /\ ~destFile.exists
    /\ errorChan = <<"write">>

\* C31: the rename of the temp file to destPath happens after the temp file
\* has been closed (and after every chunk write and a sync): no step makes
\* the destination while the *os.File of the temp file is still open.
C31_RenameAfterClose ==
    [][(~destFile.exists /\ destFile'.exists /\ cdPc = "finalize") =>
          fileClosed]_vars

\* C32: during one DownloadFile call, the Retrier's re-attempts included, the
\* download function is called for a chunk only if no earlier call for that
\* chunk returned the bytes; and a worker makes at most MaxDownloadRetries = 3
\* calls for a chunk.
C32_NoRefetchAfterSuccess ==
    /\ [](\A c \in DOMAIN dfTries : dfTries[c] <= 3)
    /\ [][\A c \in DOMAIN dfCalls :
            dfCalls'[c] > dfCalls[c] => dfOks[c] = 0]_vars

\* The least n with n * chunkSize >= size
C33_Ceil(size, chunkSize) ==
    CHOOSE n \in 0 .. MaxChunks :
        n * chunkSize >= size /\ (n = 0 \/ (n - 1) * chunkSize < size)

\* The chunk of index i: from i * chunkSize on, chunkSize bytes or what is
\* left of the file
C33_Chunk(i) ==
    [offset |-> i * cdChunkSize,
     size |-> IF cdSize - i * cdChunkSize < cdChunkSize
              THEN cdSize - i * cdChunkSize ELSE cdChunkSize]

\* The jobs sent so far, those in the channel and those in the workers'
\* hands, are the chunks below senderI in their order; the chunks are
\* adjacent, first at 0, last ending at size; the calls made are calls for
\* chunks, and all N of them after a download without a fault
C33_Jobs ==
    LET N == C33_Ceil(cdSize, cdChunkSize)
    IN  cdPc # "idle" =>
           /\ senderI <= N
           /\ \A k \in 1 .. Len(chunkChan) :
                 chunkChan[k] = C33_Chunk(senderI - Len(chunkChan) + k - 1)
           /\ \A w \in DOMAIN wJob :
                 wPc[w] \in {"check", "fetch", "write"} =>
                     \E i \in 0 .. senderI - 1 : wJob[w] = C33_Chunk(i)
           /\ fetchLog \subseteq
                 {[offset |-> C33_Chunk(i).offset, limit |-> C33_Chunk(i).size] :
                     i \in 0 .. N - 1}
           /\ \A i \in 0 .. N - 1 :
                 /\ C33_Chunk(i).size > 0
                 /\ C33_Chunk(i).offset + C33_Chunk(i).size =
                       IF i = N - 1 THEN cdSize ELSE C33_Chunk(i + 1).offset
           /\ (cdResult = "ok" /\ ~ctxDone) => Cardinality(fetchLog) = N
           /\ NumChunks(5 * 1024 * 1024, 524288) = 10
           /\ \A i \in 0 .. 9 :
                 ChunkJobAt(i, 5 * 1024 * 1024, 524288) =
                     [offset |-> i * 524288, size |-> 524288]

\* The first call of a worker for its job is a call no worker made before
C33_FirstCallNew ==
    \A w \in DOMAIN wJob :
        (/\ wPc[w] = "fetch"
         /\ wRetry[w] = 0
         /\ (wPc'[w] = "write" \/ wRetry'[w] = 1)) =>
            [offset |-> wJob[w].offset, limit |-> wJob[w].size] \notin fetchLog

\* C33: the jobs sent are the chunks 0 .. N - 1, N = ceil(size / chunkSize),
\* with offset i * chunkSize and length min(chunkSize, size - offset), in
\* this order; the chunks are adjacent, first at 0, last ending at size; no
\* chunk is fetched a second time unless its fetch failed, and after a
\* download that returned nil with the context alive the calls made are
\* exactly these N; a 5 MiB file in 512 KiB chunks makes 10 jobs of 524288.
C33_ChunkEnumeration == []C33_Jobs /\ [][C33_FirstCallNew]_vars

\* C33 witness: a file of two chunks and one byte was downloaded without a
\* fault, in three calls, the last for one byte
C33_Witness ==
    /\ cdPc = "returned"
    /\ cdResult = "ok"
    /\ ~ctxDone
    /\ cdChunkSize = 524288
    /\ cdSize = 2 * 524288 + 1
    /\ fetchLog = {[offset |-> 0, limit |-> 524288],
                   [offset |-> 524288, limit |-> 524288],
                   [offset |-> 1048576, limit |-> 1]}

\* C34: a getHistory request is sent only when no goroutine of the batch
\* submitted before it is still in DownloadMedia: every download of page k
\* has returned (downloaded, failed or skipped) before page k + 1 is asked
\* for, and before the walk ends.
C34_BatchDrainBarrier ==
    [][(Len(wkRequests') > Len(wkRequests) \/ (wkPc # "done" /\ wkPc' = "done"))
          => wkOutstanding = 0]_vars

\* C34 witness: a second page was asked for after a batch of two downloads
C34_Witness ==
    /\ Len(wkRequests) = 2
    /\ Len(wkBatches) >= 1
    /\ Len(wkBatches[1]) = 2
    /\ wkOutstanding = 0

\* The DownloadMedia calls that hold a slot of the semaphore
C35_Holders == {j \in JobIds : jobs[j].pc \in {"download", "fetch", "rename"}}

\* C35: the slots taken are those of the DownloadMedia calls past the
\* acquisition and not yet returned, batch, manual and live calls together,
\* and never more than maxConcurrent; a call that has returned (skipped,
\* refused, failed, downloaded) holds none, so a waiting call can enter
\* whenever maxConcurrent calls are not running, and every waiting call does
\* get past the semaphore.
C35_SemaphoreBound ==
    /\ [](/\ sem = Cardinality(C35_Holders)
          /\ sem <= poolMax
          /\ \A j \in JobIds :
                (jobs[j].pc = "queued" /\ Cardinality(C35_Holders) < poolMax)
                    => ENABLED JobEnter(j))
    /\ \A j \in 1 .. MaxJobs :
          (Len(jobs) >= j /\ jobs[j].pc = "queued")
              ~> (Len(jobs) >= j /\ jobs[j].pc # "queued")

\* C35 witness: with maxConcurrent 1 the first call has returned with its
\* file and the second, which waited, is past the semaphore
C35_Witness ==
    /\ poolMax = 1
    /\ Len(jobs) = 2
    /\ jobs[1].res = "downloaded"
    /\ jobs[2].pc = "fetch"
    /\ sem = 1

\* What the history walker would submit for the messages of the updates, in
\* order: MediaExtractor's descriptor for each message of the target peer
\* that has one
RECURSIVE C36_Extracted(_)
C36_Extracted(updates) ==
    IF updates = <<>> THEN <<>>
    ELSE LET msg  == Head(updates).message
             desc == extractMediaInfo(msg, TargetChatID)
         IN  (IF isFromTargetChat(msg, TargetChatID) /\ desc # NilMedia
              THEN <<desc>> ELSE <<>>) \o C36_Extracted(Tail(updates))

\* C36: the descriptors the update dispatcher submits are, message by
\* message, the ones extractMediaInfo returns for the messages of the target
\* peer (same file name, declared size, thumbSize and mime type as the
\* history walker submits), and nothing is submitted for a message for which
\* extractMediaInfo returns none.
C36_LiveSubmitsExtracted == lvAttempts = C36_Extracted(lvUpdates)

\* The sanitized name of the submission
C37_Name == sanitizeFileNameChars(ptFileName)

\* C37: sanitizeFileName is idempotent, its result holds none of the
\* substrings / \ .. : * ? " < > | and is never empty, "." or "..", and the
\* file DownloadMedia goes on to download is named by such a fixed point.
C37_SanitizeIdempotent ==
    /\ sanitizeFileNameChars(C37_Name) = C37_Name
    /\ \A i \in 1 .. Len(SanitizePatterns) :
          ~ContainsChars(C37_Name, SanitizePatterns[i])
    /\ C37_Name \notin {<<>>, <<".">>, <<".", ".">>}
    /\ ptPc \in {"download", "done"} =>
          /\ ptPath # <<>>
          /\ sanitizeFileNameChars(ptPath[Len(ptPath)]) = ptPath[Len(ptPath)]
          /\ ptFileName # <<>> => ptPath[Len(ptPath)] = C37_Name

\* C37 witness: the name "../." has been sanitized to "__." and its file
\* downloaded under that name
C37_Witness ==
    /\ ptFileName = <<".", ".", "/", ".">>
    /\ C37_Name = <<"_", "_", ".">>
    /\ ptPc = "done"
    /\ ptPath[Len(ptPath)] = <<"_", "_", ".">>

\* The outcomes counted and the calls that have returned
C38_Counted == stats.Downloaded + stats.Failed + stats.Skipped
C38_Returned == {j \in JobIds : jobs[j].pc = "done"}

\* C38 (state part): the three outcome counters count the calls that ended
\* so, their sum never exceeds total and the bytes downloaded never exceed
\* the bytes submitted; when every submitted call has returned (after Wait,
\* with no live call in flight) the sum equals total.
C38_Conserved ==
    /\ stats.Total = Len(jobs)
    /\ stats.Downloaded =
          Cardinality({j \in JobIds : jobs[j].res = "downloaded"})
    /\ stats.Skipped = Cardinality({j \in JobIds : jobs[j].res = "skipped"})
    /\ C38_Counted = Cardinality(C38_Returned)
    /\ C38_Counted <= stats.Total
    /\ stats.DownloadedSize <= stats.TotalSize
    /\ (\A j \in JobIds : jobs[j].pc = "done") => C38_Counted = stats.Total

\* C38 (step part): a step in which a call returns raises exactly one of the
\* three counters by one, and no other step changes a counter.
C38_OneCounterOnce ==
    LET d == stats'.Downloaded - stats.Downloaded
        f == stats'.Failed - stats.Failed
        k == stats'.Skipped - stats.Skipped
    IN  /\ {d, f, k} \subseteq {0, 1}
        /\ d + f + k = Cardinality(C38_Returned') - Cardinality(C38_Returned)
        /\ d + f + k <= 1

\* C38: stats conservation of the pool.
C38_StatsConservation == []C38_Conserved /\ [][C38_OneCounterOnce]_vars

\* C38 witness: two calls submitted and returned, one with its file and one
\* failed, and the bytes downloaded are fewer than the bytes submitted
C38_Witness ==
    /\ Len(jobs) = 2
    /\ \A j \in JobIds : jobs[j].pc = "done"
    /\ stats.Downloaded = 1
    /\ stats.Failed = 1
    /\ stats.Total = 2
    /\ stats.DownloadedSize < stats.TotalSize

\* C40: every iteration of the loop of downloadFileChunks (one upload.getFile
\* call) either leaves the loop with an error or moves the offset strictly
\* forward, whatever the length of the reply, a short or an empty one
\* included, so the loop ends for every size and server behaviour.
C40_IterationAdvances ==
    [][(seqPc = "loop" /\ seqCalls' = seqCalls + 1)
          => (seqPc' # "loop" \/ seqOffset' > seqOffset)]_vars

\* The goroutines of the invocation have all ended: the sender (its deferred
\* close of the job channel has run), the workers, the closer of the error
\* channel and the progress reporter
C39_AllEnded ==
    /\ chunkChanClosed
    /\ \A w \in Workers : wPc[w] = "done"
    /\ errorChanClosed
    /\ ~progressOn

\* C39: once a DownloadToFile that started its goroutines has returned, every
\* one of them ends, also when the workers stopped on an error and the
\* context is not cancelled: the sender does not stay blocked on the job
\* channel.
C39_GoroutinesTerminate ==
    (cdPc = "returned" /\ \E w \in Workers : wPc[w] # "idle") ~> C39_AllEnded

====
